---------------------------- MODULE Spec2Model ----------------------------
(***************************************************************************)
(* The fetch-through cache of mensa (src/src/cache/mod.rs and              *)
(* src/src/cache/wrapper.rs): the cacache store (an index from keys to     *)
(* metadata and a content-addressed blob store), the upstream server, and  *)
(* fetch() as a sequence of steps, one per interaction with the store or   *)
(* the network.                                                            *)
(***************************************************************************)
EXTENDS Integers, Sequences, FiniteSets, TLC

(***************************************************************************)
(* Bounds of the model.                                                    *)
(***************************************************************************)
\* The clock advances in steps of TickMs milliseconds up to MaxNow.
TickMs == 500
MaxNow == 500
\* A short, sub-second TTL, in milliseconds.
TtlShortMs == 300

(***************************************************************************)
(* Option and Result.                                                      *)
(***************************************************************************)
None == <<>>
Some(x) == <<x>>
IsSome(o) == o # <<>>
Unwrap(o) == o[1]

\* The variants of crate::error::Error the cache module produces.
Error(kind, ctx, url, status) ==
    [kind |-> kind, ctx |-> ctx, url |-> url, status |-> status]
ErrInternalUrl == Error("InternalUrlError", "", None, 0)
ErrReqwest == Error("Reqwest", "", None, 0)
ErrCache(ctx) == Error("Cache", ctx, None, 0)
ErrIo(ctx) == Error("Io", ctx, None, 0)
ErrDeserializing(ctx) == Error("Deserializing", ctx, None, 0)
ErrDecodingUtf8 == Error("DecodingUtf8", "", None, 0)
ErrNonSuccessStatusCode(url, status) ==
    Error("NonSuccessStatusCode", "", Some(url), status)
\* No error: the err of a record of something that went well.
NoError == Error("", "", None, 0)

Ok(v) == [ok |-> TRUE, val |-> v]
Err(e) == [ok |-> FALSE, err |-> e]

(***************************************************************************)
(* URLs.  A URL string is modelled by its parts; Url::parse fails on a     *)
(* string without a scheme, lower-cases the host and keeps the query       *)
(* parameters in the order given.                                          *)
(***************************************************************************)
RawUrl(scheme, host, query) == [scheme |-> scheme, host |-> host, query |-> query]

LowerHost(h) ==
    CASE h = "OpenMensa.org" -> "openmensa.org"
      [] OTHER -> h

\* A Url::parse that also sorts the query parameters.
UrlParseSorted(raw) ==
    IF raw.scheme = ""
    THEN Err(ErrInternalUrl)
    ELSE Ok(RawUrl(raw.scheme, LowerHost(raw.host),
                   IF raw.query = <<"b", "a">> THEN <<"a", "b">> ELSE raw.query))

\* fetch, lines 103-104: Url::parse(url)?.as_ref()
UrlParse(raw) ==
    IF raw.scheme = ""
    THEN Err(ErrInternalUrl)
    ELSE Ok(RawUrl(raw.scheme, LowerHost(raw.host), raw.query))

UrlAB == RawUrl("https", "openmensa.org", <<"a", "b">>)
UrlBA == RawUrl("https", "openmensa.org", <<"b", "a">>)
UrlMixedAB == RawUrl("https", "OpenMensa.org", <<"a", "b">>)
UrlRelative == RawUrl("", "openmensa.org", <<>>)

\* The URL strings callers pass to fetch.
RawUrls == {UrlAB, UrlBA, UrlMixedAB, UrlRelative}
\* The keys of the store: the normalized URLs.
Keys == {UrlParse(r).val : r \in {x \in RawUrls : UrlParse(x).ok}}

(***************************************************************************)
(* Payloads.  A blob is a byte string; text.as_bytes() is always valid     *)
(* UTF-8, a blob written by another program need not be.                   *)
(***************************************************************************)
Bodies == {"[1]", "oops"}
AsBytes(text) == [utf8 |-> TRUE, s |-> text]
InvalidUtf8Blob == [utf8 |-> FALSE, s |-> "ff"]
Blobs == {AsBytes(b) : b \in Bodies} \cup {InvalidUtf8Blob}

\* String::from_utf8(raw).map_err(Error::DecodingUtf8)
FromUtf8(raw) == IF raw.utf8 THEN Ok(raw.s) ELSE Err(ErrDecodingUtf8)

\* ssri::Integrity of a blob: the content address (collision-free).
IntegrityOf(blob) == [algo |-> "sha256", of |-> blob]

(***************************************************************************)
(* Headers and their JSON form (serde_json::Value).                        *)
(***************************************************************************)
\* The value of a number or a string is the one-element tuple of it, the
\* value of null the empty tuple.
JNull == [t |-> "null", v |-> <<>>]
JNum(n) == [t |-> "num", v |-> <<n>>]
JStr(s) == [t |-> "str", v |-> <<s>>]
JObj(fields) == [t |-> "obj", v |-> fields]

Headers(etag, this_page, next_page, last_page) ==
    [etag |-> etag, this_page |-> this_page,
     next_page |-> next_page, last_page |-> last_page]

JOptStr(o) == IF IsSome(o) THEN JStr(Unwrap(o)) ELSE JNull
JOptNum(o) == IF IsSome(o) THEN JNum(Unwrap(o)) ELSE JNull

\* A to_value that loses the next_page field.
ToValueWithoutNextPage(h) ==
    JObj([etag |-> JOptStr(h.etag), this_page |-> JOptNum(h.this_page),
          next_page |-> JNull, last_page |-> JOptNum(h.last_page)])

\* serde_json::to_value(headers): derive(Serialize) of Headers
ToValue(h) ==
    JObj([etag |-> JOptStr(h.etag), this_page |-> JOptNum(h.this_page),
          next_page |-> JOptStr(h.next_page), last_page |-> JOptNum(h.last_page)])

OptStrOk(j) == j.t \in {"null", "str"}
OptNumOk(j) == j.t \in {"null", "num"}
OptOf(j) == IF j.t = "null" THEN None ELSE Some(j.v[1])

\* serde_json::from_value::<Headers>(value): derive(Deserialize) of Headers.
\* The result is Ok(headers) or Err("serde").
FromValue(j) ==
    IF j.t # "obj" THEN Err("serde")
    ELSE IF ~(OptStrOk(j.v.etag) /\ OptNumOk(j.v.this_page)
              /\ OptStrOk(j.v.next_page) /\ OptNumOk(j.v.last_page))
    THEN Err("serde")
    ELSE Ok(Headers(OptOf(j.v.etag), OptOf(j.v.this_page),
                    OptOf(j.v.next_page), OptOf(j.v.last_page)))

(***************************************************************************)
(* Header projection: impl From<HeaderMap> for Headers.  A raw header      *)
(* value is a byte string that to_str() accepts only if it is visible      *)
(* ASCII.  A Link value is modelled as the list of its links, each a       *)
(* target with its rel parameter.                                          *)
(***************************************************************************)
RawValue(s) == [visible |-> TRUE, s |-> s]
OpaqueValue == [visible |-> FALSE, s |-> "ff"]
HeaderMap(etag, xcur, link, xtot) ==
    [etag |-> etag, xcur |-> xcur, link |-> link, xtot |-> xtot]

\* raw.to_str().ok()
ToStr(raw) == IF raw.visible THEN Some(raw.s) ELSE None

\* str::parse::<usize>().ok()
ParseUsize(s) ==
    CASE s = "0" -> Some(0)
      [] s = "1" -> Some(1)
      [] s = "2" -> Some(2)
      [] s = "3" -> Some(3)
      [] s = "4" -> Some(4)
      [] s = "5" -> Some(5)
      [] s = "+1" -> Some(1)
      [] OTHER -> None

Link(target, rel) == [target |-> target, rel |-> rel]
RECURSIVE FirstNext(_)
\* LINK_NEXT_PAGE_RE.captures(utf8): the leftmost <target>; rel="next"
FirstNext(links) ==
    IF links = <<>> THEN None
    ELSE IF Head(links).rel = "next" THEN Some(Head(links).target)
    ELSE FirstNext(Tail(links))

ProjectEtag(map) ==
    IF IsSome(map.etag) THEN ToStr(Unwrap(map.etag)) ELSE None
\* A page number that is 0 when its header is there and is no number.
ProjectPageOrZero(field) ==
    IF IsSome(field) /\ IsSome(ToStr(Unwrap(field)))
    THEN IF IsSome(ParseUsize(Unwrap(ToStr(Unwrap(field)))))
         THEN ParseUsize(Unwrap(ToStr(Unwrap(field))))
         ELSE Some(0)
    ELSE None

ProjectPage(field) ==
    IF IsSome(field) /\ IsSome(ToStr(Unwrap(field)))
    THEN ParseUsize(Unwrap(ToStr(Unwrap(field))))
    ELSE None
ProjectNextPage(map) ==
    IF IsSome(map.link) /\ IsSome(ToStr(Unwrap(map.link)))
    THEN FirstNext(Unwrap(ToStr(Unwrap(map.link))))
    ELSE None

HeadersFrom(map) ==
    Headers(ProjectEtag(map), ProjectPage(map.xcur),
            ProjectNextPage(map), ProjectPage(map.xtot))

(***************************************************************************)
(* Time.  chrono keeps an instant and a duration as whole seconds plus     *)
(* nanoseconds; the clock of the model counts milliseconds.                *)
(***************************************************************************)
\* Milliseconds per second: the 1000 of is_fresh.
MillisPerSec == 1000

\* Utc.timestamp(secs, nsecs)
Timestamp(secs, nsecs) ==
    [secs |-> secs + (nsecs \div 1000000000), nanos |-> nsecs % 1000000000]
\* chrono::Utc::now() when the clock reads t milliseconds
UtcNow(t) == Timestamp(t \div MillisPerSec, (t % MillisPerSec) * 1000000)
\* Duration::milliseconds(ms)
DurationMillis(ms) ==
    [secs |-> ms \div MillisPerSec, nanos |-> (ms % MillisPerSec) * 1000000]
DurationZero == DurationMillis(0)
\* Duration::max_value() is i64::MAX milliseconds; its seconds are cut to the
\* largest integer TLC has, far above every instant of the model.
DurationMax == [secs |-> 2147483647, nanos |-> 807000000]
\* DateTime - DateTime
DateSub(a, b) ==
    IF a.nanos - b.nanos < 0
    THEN [secs |-> a.secs - b.secs - 1, nanos |-> a.nanos - b.nanos + 1000000000]
    ELSE [secs |-> a.secs - b.secs, nanos |-> a.nanos - b.nanos]
\* Duration < Duration
DurationLess(x, y) ==
    x.secs < y.secs \/ (x.secs = y.secs /\ x.nanos < y.nanos)

\* An is_fresh that compares with <= instead of <.
is_fresh_inclusive(meta, local_ttl, t) ==
    LET age_ms == meta.time
        cache_age == Timestamp(age_ms \div MillisPerSec, age_ms % MillisPerSec)
        age == DateSub(UtcNow(t), cache_age)
    IN  DurationLess(age, local_ttl) \/ age = local_ttl

\* is_fresh(meta, local_ttl) when the clock reads t
is_fresh(meta, local_ttl, t) ==
    LET age_ms == meta.time
        cache_age == Timestamp(age_ms \div MillisPerSec, age_ms % MillisPerSec)
    IN  DurationLess(DateSub(UtcNow(t), cache_age), local_ttl)

\* The TTLs callers pass.
TTLs == {DurationZero, DurationMillis(TtlShortMs), DurationMax}

(***************************************************************************)
(* The store (cacache): the index maps a key to its Metadata, the content  *)
(* store holds blobs by their integrity hash.                              *)
(***************************************************************************)
Metadata(key, blob, time, metadata) ==
    [key |-> key, integrity |-> IntegrityOf(blob), time |-> time, metadata |-> metadata]

\* wrapper::read_cache_meta(url); io is the outcome of the index lookup
read_cache_meta(idx, url, io) ==
    IF io = "err" THEN Err(ErrCache("reading metadata")) ELSE Ok(idx[url])

\* wrapper::read_cache(meta); io is the outcome of the content lookup
read_cache(cont, meta, io) ==
    IF io = "err" \/ meta.integrity.of \notin cont
    THEN Err(ErrCache("reading value"))
    ELSE Ok(meta.integrity.of)

\* The outcomes of a write: done, or failed at open_sync or commit (a cache
\* error) or at write_all (an I/O error).
WriteOutcomes == {"ok", "open", "write", "commit"}
WriteError(w) ==
    CASE w = "open" -> ErrCache("opening for write")
      [] w = "write" -> ErrIo("writing value")
      [] OTHER -> ErrCache("commiting write")

\* A write_cache whose failure leaves the key without its entry.
write_cache_dropping(idx, cont, t, headers, url, text, w) ==
    IF w = "ok"
    THEN [res |-> Ok("unit"),
          index |-> [idx EXCEPT ![url] =
                        Some(Metadata(url, AsBytes(text), t, ToValue(headers)))],
          content |-> cont \cup {AsBytes(text)}]
    ELSE [res |-> Err(WriteError(w)),
          index |-> [idx EXCEPT ![url] = None],
          content |-> cont]

\* wrapper::write_cache(headers, url, text) at time t with outcome w: the
\* result and the store after it.  A failed write leaves the index as it was;
\* a blob it may have left behind has no index entry and cannot be reached.
write_cache(idx, cont, t, headers, url, text, w) ==
    IF w = "ok"
    THEN [res |-> Ok("unit"),
          index |-> [idx EXCEPT ![url] =
                        Some(Metadata(url, AsBytes(text), t, ToValue(headers)))],
          content |-> cont \cup {AsBytes(text)}]
    ELSE [res |-> Err(WriteError(w)),
          index |-> idx,
          content |-> cont]

\* headers_from_metadata(meta)
headers_from_metadata(meta) ==
    LET h == FromValue(meta.metadata)
    IN  IF h.ok THEN h ELSE Err(ErrDeserializing("loading headers from cache"))

\* A to_text_and_headers that decodes the payload and forgets the stored
\* headers.
LoadTextOnly(raw, metadata) ==
    LET utf8 == FromUtf8(raw)
    IN  IF ~utf8.ok THEN utf8
        ELSE Ok(<<utf8.val, Headers(None, None, None, None)>>)

\* to_text_and_headers(raw, meta)
to_text_and_headers(raw, metadata) ==
    LET utf8 == FromUtf8(raw)
        h == FromValue(metadata)
    IN  IF ~utf8.ok THEN utf8
        ELSE IF ~h.ok
        THEN Err(ErrDeserializing("reading headers from cache. Try clearing the cache."))
        ELSE Ok(<<utf8.val, h.val>>)

\* try_load_cache(url, local_ttl) on a store at time t, as one evaluation;
\* mio and rio are the outcomes of the index and the content lookup.
\* The result is Ok of a CacheResult, or Err.
CacheMiss == [tag |-> "Miss"]
CacheStale(headers, meta) == [tag |-> "Stale", headers |-> headers, meta |-> meta]
CacheHit(tah) == [tag |-> "Hit", tah |-> tah]

try_load_cache(idx, cont, t, url, local_ttl, mio, rio) ==
    LET m == read_cache_meta(idx, url, mio)
    IN  IF ~m.ok THEN m
        ELSE IF ~IsSome(m.val) THEN Ok(CacheMiss)
        ELSE LET meta == Unwrap(m.val)
             IN  IF is_fresh(meta, local_ttl, t)
                 THEN LET raw == read_cache(cont, meta, rio)
                      IN  IF ~raw.ok THEN raw
                          ELSE LET tah == to_text_and_headers(raw.val, meta.metadata)
                               IN  IF tah.ok THEN Ok(CacheHit(tah.val)) ELSE tah
                 ELSE LET old == headers_from_metadata(meta)
                      IN  IF old.ok THEN Ok(CacheStale(old.val, meta)) ELSE old

(***************************************************************************)
(* The upstream server and the transport.                                  *)
(***************************************************************************)
StatusOk == 200
StatusNotModified == 304
StatusNotFound == 404

\* An is_success that also accepts the 3xx statuses.
IsBelowClientError(status) == 200 <= status /\ status <= 399

\* StatusCode::is_success
IsSuccess(status) == 200 <= status /\ status <= 299

NoHeaders == HeaderMap(None, None, None, None)
PageHeaders ==
    HeaderMap(Some(RawValue("static")), Some(RawValue("1")),
              Some(RawValue(<<Link(UrlBA, "next")>>)), Some(RawValue("2")))
\* The header maps the server answers with.
ServerHeaderMaps == {NoHeaders, PageHeaders}
\* The versions of a resource the server holds: headers and body.
Resource(headers, body) == [headers |-> headers, body |-> body]
ServerResources == {Resource(PageHeaders, "[1]"), Resource(NoHeaders, "oops")}

TransportError ==
    [kind |-> "transport", status |-> 0, headers |-> NoHeaders, body |-> "", url |-> None]
Response(status, headers, body, url) ==
    [kind |-> "response", status |-> status, headers |-> headers,
     body |-> body, url |-> Some(url)]

\* What send_request may return for a GET of url: a transport error, or a
\* response; resp.url() is the final URL, which differs from the requested
\* one after a redirect.
ServerOutcomes(url) ==
    {TransportError}
    \cup {Response(StatusOk, r.headers, r.body, u) : r \in ServerResources, u \in Keys}
    \cup {Response(StatusNotModified, h, "", url) : h \in ServerHeaderMaps}
    \cup {Response(StatusNotFound, NoHeaders, "", url)}

(***************************************************************************)
(* A paginated upstream: NumPages pages, page i a list with the one item   *)
(* i, reporting x-current-page i and x-total-pages NumPages.               *)
(***************************************************************************)
NumPages == 3

\* Numbers as the header values and bodies spell them.
Decimals == <<"1", "2", "3", "4", "5">>
PageBodies == <<"[1]", "[2]", "[3]", "[4]", "[5]">>

\* The URL of page i.
PageUrl(i) == RawUrl("https", "openmensa.org", <<"page", Decimals[i]>>)
PageKeys == {UrlParse(PageUrl(i)).val : i \in 1..NumPages}
PageNumber(url) == CHOOSE i \in 1..NumPages : UrlParse(PageUrl(i)).val = url

\* The page after page i; the last page links back to the first.
NextOf(i) == IF i < NumPages THEN i + 1 ELSE 1

\* The headers of page i: complete, without the next link, without
\* x-current-page.
FullPageHeaders(i) ==
    HeaderMap(Some(RawValue("static")), Some(RawValue(Decimals[i])),
              Some(RawValue(<<Link(PageUrl(NextOf(i)), "next")>>)),
              Some(RawValue(Decimals[NumPages])))
UnlinkedPageHeaders(i) ==
    HeaderMap(Some(RawValue("static")), Some(RawValue(Decimals[i])),
              None, Some(RawValue(Decimals[NumPages])))
UncountedPageHeaders(i) ==
    HeaderMap(Some(RawValue("static")), None,
              Some(RawValue(<<Link(PageUrl(NextOf(i)), "next")>>)),
              Some(RawValue(Decimals[NumPages])))

\* What the upstream answers to a GET of page i: no answer, the page, the
\* page without its next link or its number, an empty list under the
\* page's headers, a body that is no list, 304, 404.
PageOutcomes(url) ==
    LET i == PageNumber(url)
    IN  {TransportError,
         Response(StatusOk, FullPageHeaders(i), PageBodies[i], url),
         Response(StatusOk, UnlinkedPageHeaders(i), PageBodies[i], url),
         Response(StatusOk, UncountedPageHeaders(i), PageBodies[i], url),
         Response(StatusOk, FullPageHeaders(i), "[]", url),
         Response(StatusOk, FullPageHeaders(i), "oops", url),
         Response(StatusNotModified, FullPageHeaders(i), "", url),
         Response(StatusNotFound, NoHeaders, "", url)}

(***************************************************************************)
(* The caller's map: the identity on (text, headers), which gives the      *)
(* fetch(url, ttl) -> (text, Headers) of the interface, or fetch_json.     *)
(***************************************************************************)
Maps == {"tah", "json", "pages"}

\* serde_json::from_str(&text) for a list of numbers
JsonFromStr(text) ==
    CASE text = "[1]" -> Ok(<<1>>)
      [] text = "[]" -> Ok(<<>>)
      [] OTHER -> Err(ErrDeserializing("fetching json"))

\* serde_json::from_str::<Vec<_>>(&text) in PaginatedList::next
PagesFromStr(text) ==
    IF \E i \in DOMAIN PageBodies : PageBodies[i] = text
    THEN Ok(<<CHOOSE i \in DOMAIN PageBodies : PageBodies[i] = text>>)
    ELSE IF text = "[]" THEN Ok(<<>>)
    ELSE Err(ErrDeserializing("fetching json in pagination iterator"))

\* The closure PaginatedList::next gives to fetch, pagination.rs lines 78-82
PagesMap(tah) ==
    LET val == PagesFromStr(tah[1])
    IN  IF val.ok
        THEN Ok(<<val.val, tah[2].this_page, tah[2].next_page, tah[2].last_page>>)
        ELSE val

\* A map that answers a text it cannot deserialize with the empty list.
ApplyMapLenient(map, tah) ==
    CASE map = "json" ->
           IF JsonFromStr(tah[1]).ok THEN JsonFromStr(tah[1]) ELSE Ok(<<>>)
      [] map = "pages" ->
           IF PagesMap(tah).ok THEN PagesMap(tah)
           ELSE Ok(<<<<>>, tah[2].this_page, tah[2].next_page, tah[2].last_page>>)
      [] OTHER -> Ok(tah)

\* map(text, headers) at the end of fetch
ApplyMap(map, tah) ==
    CASE map = "json" -> JsonFromStr(tah[1])
      [] map = "pages" -> PagesMap(tah)
      [] OTHER -> Ok(tah)

(***************************************************************************)
(* The in-memory store of the tests (DummyCache): a map from a path to an  *)
(* Entry of metadata and text.  The path of an entry is the hash of its    *)
(* key, and so is the integrity its metadata carries.                      *)
(***************************************************************************)
\* Integrity::from(url): the hash of the key's bytes
IntegrityFrom(url) == [algo |-> "sha256", of |-> [key |-> url]]
\* path_from_integrity: the algorithm's name followed by the digest in hex
path_from_integrity(integrity) == <<integrity.algo, integrity.of>>
\* path_from_key
path_from_key(key) == path_from_integrity(IntegrityFrom(key))
DummyPaths == {path_from_key(k) : k \in Keys}

\* struct Entry
Entry(meta, text) == [meta |-> meta, text |-> text]

\* An assemble_meta that stamps every entry with the epoch.
assemble_meta_epoch(headers, url, text, t) ==
    [key |-> url, integrity |-> IntegrityFrom(url), time |-> 0,
     metadata |-> ToValue(headers)]

\* assemble_meta(headers, url, text) when the clock reads t
assemble_meta(headers, url, text, t) ==
    [key |-> url, integrity |-> IntegrityFrom(url), time |-> t,
     metadata |-> ToValue(headers)]

\* DummyCache::write: insert replaces the entry of the path
DummyWrite(d, headers, url, text, t) ==
    [d EXCEPT ![path_from_key(url)] = Some(Entry(assemble_meta(headers, url, text, t), text))]

\* DummyCache::meta
DummyMeta(d, url) ==
    IF IsSome(d[path_from_key(url)])
    THEN Ok(Some(Unwrap(d[path_from_key(url)]).meta))
    ELSE Ok(None)

\* DummyCache::read: the entry of the metadata's path; expect() panics when
\* there is none
DummyRead(d, meta) ==
    LET path == path_from_integrity(meta.integrity)
    IN  IF path \in DOMAIN d /\ IsSome(d[path])
        THEN Ok(Unwrap(d[path]).text)
        ELSE [ok |-> FALSE, panic |-> "BUG: Metadata exists, but entry does not!"]

\* A clear that leaves the entry of one path.
DummyClearButOne(d) ==
    [p \in DOMAIN d |-> IF p = path_from_key(UrlParse(UrlAB).val) THEN d[p] ELSE None]

\* DummyCache::clear
DummyClear(d) == [p \in DOMAIN d |-> None]

\* DummyCache::list
DummyList(d) == {Unwrap(d[p]).meta : p \in {q \in DOMAIN d : IsSome(d[q])}}

\* DummyCache::init
DummyInit == [p \in DummyPaths |-> None]

(***************************************************************************)
(* PaginatedList: the pending URL and the TTL.  With them the model keeps  *)
(* who drains the list (calls of next, or consume), the steps taken so     *)
(* the URL it was constructed with, who drains the list (calls of next,    *)
(* or consume), the steps taken so far, each with the URL it fetched and   *)
(* the result fetch gave it, the number of steps that yielded nothing,     *)
(* what consume returned, and how many lists were constructed.             *)
(***************************************************************************)
PaginatedList(next_page, ttl) ==
    [next_page |-> next_page, ttl |-> ttl, first |-> next_page, by |-> "next",
     steps |-> <<>>, nones |-> 0, out |-> None, lists |-> 0]

\* No list constructed.
NoList == PaginatedList(None, DurationZero)

(***************************************************************************)
(* Fetchable<T>: a value that is not there yet (None) or has been fetched  *)
(* (Fetched(value)).  The closure given to fetch and fetch_mut is a        *)
(* FnOnce: the model passes the Result it gives when it is invoked.  A     *)
(* call answers with the Fetchable afterwards, whether the closure was     *)
(* invoked, whether the call panicked, and the Result it returned (None    *)
(* when it panicked and so returned nothing).                              *)
(***************************************************************************)
FetchableNone == [fetched |-> FALSE, value |-> None]
FetchableFetched(value) == [fetched |-> TRUE, value |-> Some(value)]

is_fetched(self) == self.fetched

\* assume_fetched: the value, or the panic of line 53
assume_fetched(self) ==
    IF self.fetched
    THEN [panic |-> FALSE, value |-> self.value]
    ELSE [panic |-> TRUE, value |-> None]

\* assume_fetched_mut: the value, or the panic of line 61
assume_fetched_mut(self) ==
    IF self.fetched
    THEN [panic |-> FALSE, value |-> self.value]
    ELSE [panic |-> TRUE, value |-> None]

FetchableCall(self, called, panic, result) ==
    [self |-> self, called |-> called, panic |-> panic, result |-> result]

\* What the Fetched arm and the None arm end in, given the reference
\* assume_fetched or assume_fetched_mut hands out.
Assumed(self, got) ==
    FetchableCall(self, TRUE, got.panic,
                  IF got.panic THEN None ELSE Some(Ok(Unwrap(got.value))))

\* A fetch that invokes its closure whatever the state is, and replaces a
\* value that was fetched before.
FetchableRefetch(self, f) ==
    IF ~f.ok
    THEN FetchableCall(self, TRUE, FALSE, Some(f))
    ELSE Assumed(FetchableFetched(f.val), assume_fetched(FetchableFetched(f.val)))

\* A fetch_mut that answers a failing closure with an empty value and keeps
\* that as fetched.
FetchableFetchMutDefaulting(self, f) ==
    IF self.fetched
    THEN FetchableCall(self, FALSE, FALSE, Some(Ok(Unwrap(self.value))))
    ELSE IF ~f.ok
         THEN FetchableCall(FetchableFetched(<<>>), TRUE, FALSE, Some(Ok(<<>>)))
         ELSE Assumed(FetchableFetched(f.val),
                      assume_fetched_mut(FetchableFetched(f.val)))

\* Fetchable::fetch
FetchableFetch(self, f) ==
    IF self.fetched
    THEN FetchableCall(self, FALSE, FALSE, Some(Ok(Unwrap(self.value))))
    ELSE IF ~f.ok
         THEN FetchableCall(self, TRUE, FALSE, Some(f))
         ELSE Assumed(FetchableFetched(f.val),
                      assume_fetched(FetchableFetched(f.val)))

\* Fetchable::fetch_mut
FetchableFetchMut(self, f) ==
    IF self.fetched
    THEN FetchableCall(self, FALSE, FALSE, Some(Ok(Unwrap(self.value))))
    ELSE IF ~f.ok
         THEN FetchableCall(self, TRUE, FALSE, Some(f))
         ELSE Assumed(FetchableFetched(f.val),
                      assume_fetched_mut(FetchableFetched(f.val)))

(***************************************************************************)
(* Canteen: an id, the Fetchable meta and the Fetchable map from dates to  *)
(* Fetchable lists of meals.  What the closures fetch comes from the       *)
(* remote API through the cache; the model draws each answer from the      *)
(* Results such a retrieval can give and records the URLs asked for.       *)
(***************************************************************************)
CanteenIds == {"1"}
DateList == <<"2021-10-27", "2021-10-28", "2021-10-29">>
Dates == {DateList[i] : i \in DOMAIN DateList}
Metas == {"Fetchable", "Awesome Canteen"}
MealLists == {<<>>, <<"Schweinebraten">>}

\* The URLs the closures format: the canteen, its days, the meals of a day.
CanteenUrl(id) == [path |-> "canteens", id |-> id, date |-> ""]
DaysUrl(id) == [path |-> "days", id |-> id, date |-> ""]
MealsUrl(id, date) == [path |-> "meals", id |-> id, date |-> date]

\* The errors a retrieval ends in.
FetchErrors ==
    {ErrReqwest, ErrDeserializing("fetching json in pagination iterator")}

\* What consume gives for the days of a canteen: an error, or a list of up
\* to two days, which may name a date twice.
DaysAnswers ==
    {Err(e) : e \in FetchErrors}
        \cup {Ok(<<>>)} \cup {Ok(<<d>>) : d \in Dates}
        \cup {Ok(<<DateList[ij[1]], DateList[ij[2]]>>) :
                 ij \in {x \in (DOMAIN DateList) \X (DOMAIN DateList) : x[1] <= x[2]}}

\* What consume gives for the meals of a day.
MealsAnswers == {Err(e) : e \in FetchErrors} \cup {Ok(m) : m \in MealLists}

\* What fetch_json gives for the canteen itself.
MetaAnswers == {Err(e) : e \in FetchErrors} \cup {Ok(m) : m \in Metas}

\* What the API would answer to the requests of a call, had they been made.
Answers(canteen_answer, days, meals) ==
    [canteen |-> canteen_answer, days |-> days, meals |-> meals]
NoAnswers == Answers(None, None, None)

\* No call made on the canteen yet.
NoCall ==
    [op |-> "none", date |-> "", requests |-> <<>>, panic |-> FALSE,
     result |-> None, given |-> NoAnswers]

\* The call the model remembers with the canteen: the method and its date,
\* the URLs its closures asked for, whether it panicked, and what it returned.
CanteenCall(op, date, requests, panic, result) ==
    [op |-> op, date |-> date, requests |-> requests, panic |-> panic,
     result |-> result, given |-> NoAnswers]

\* impl From<CanteenId> for Canteen
CanteenFrom(id) ==
    [id |-> id, meta |-> FetchableNone, meals |-> FetchableNone,
     last |-> NoCall]

\* impl From<CanteenDeserialized> for Canteen
CanteenFromDeserialized(id, name) ==
    [id |-> id, meta |-> FetchableFetched(name), meals |-> FetchableNone,
     last |-> NoCall]

\* Meta::fetch
MetaFetch(id, answer) == answer

\* fetch_dates_for_canteen that asks for the meals of every day at once
fetch_dates_with_meals(id, days) ==
    IF days.ok
    THEN Ok([d \in {days.val[i] : i \in DOMAIN days.val} |->
                FetchableFetched(<<>>)])
    ELSE days

\* fetch_dates_for_canteen: every day of the list, with no meals fetched
fetch_dates_for_canteen(id, days) ==
    IF days.ok
    THEN Ok([d \in {days.val[i] : i \in DOMAIN days.val} |-> FetchableNone])
    ELSE days

\* fetch_meals
fetch_meals(id, date, meals) == meals

\* Canteen::meta
canteen_meta(self, answer) ==
    LET got == FetchableFetch(self.meta, MetaFetch(self.id, answer))
    IN  [[self EXCEPT !.meta = got.self] EXCEPT !.last =
            CanteenCall("meta", "",
                        IF got.called THEN <<CanteenUrl(self.id)>> ELSE <<>>,
                        got.panic, got.result)]

\* Canteen::meals_at_mut
meals_at_mut(self, date, days, meals) ==
    LET id == self.id
        dates == FetchableFetchMut(self.meals, fetch_dates_for_canteen(id, days))
        asked == IF dates.called THEN <<DaysUrl(id)>> ELSE <<>>
        listed == [self EXCEPT !.meals = dates.self]
    IN  IF dates.panic \/ ~Unwrap(dates.result).ok
        THEN [listed EXCEPT !.last =
                CanteenCall("meals_at_mut", date, asked, dates.panic,
                            dates.result)]
        ELSE LET map == Unwrap(dates.result).val
             IN  IF date \in DOMAIN map
                 THEN LET got == FetchableFetchMut(map[date],
                                                   fetch_meals(id, date, meals))
                          all == IF got.called
                                 THEN Append(asked, MealsUrl(id, date))
                                 ELSE asked
                      IN  [[listed EXCEPT
                               !.meals.value = Some([map EXCEPT ![date] = got.self])]
                           EXCEPT !.last =
                               CanteenCall("meals_at_mut", date, all, got.panic,
                                   IF got.panic \/ ~Unwrap(got.result).ok
                                   THEN got.result
                                   ELSE Some(Ok(Some(Unwrap(got.result).val))))]
                 ELSE [listed EXCEPT !.last =
                         CanteenCall("meals_at_mut", date, asked, FALSE,
                                     Some(Ok(None)))]

(***************************************************************************)
(* State.                                                                  *)
(***************************************************************************)
VARIABLES
    now,        \* the clock, in milliseconds
    index,      \* the store's index: key -> Option of Metadata
    content,    \* the store's blobs
    proc,       \* per process: where its fetch call stands, and what it did
    dummy,      \* DummyCache.content: path -> Option of Entry
    list,       \* the PaginatedList
    canteen     \* the Canteen

vars == <<now, index, content, proc, dummy, list, canteen>>

Procs == {1, 2}

\* A process outside a fetch call.
Idle ==
    [pc |-> "idle", ttl |-> DurationZero, map |-> "tah", url |-> None,
     path |-> "none", retry |-> FALSE, etag |-> None, meta |-> None,
     old_headers |-> None, resp |-> None, text |-> None, tah |-> None,
     result |-> None, gets |-> <<>>, writes |-> <<>>, log |-> <<>>]

Init ==
    /\ now = 0
    /\ index = [k \in Keys |-> None]
    /\ content = {}
    /\ proc = [p \in Procs |-> Idle]
    /\ dummy = DummyInit
    /\ list = NoList
    /\ canteen = CanteenFrom("1")

(***************************************************************************)
(* fetch: the arms of its match, as changes of the process's record s.     *)
(***************************************************************************)
\* line 121: the etag of the stored headers goes into the revalidation
StaleEtag(old_headers) == old_headers.etag
\* A request that keeps the etag of the request before it.
KeepEtag(s) == s.etag

\* lines 114, 127, 135: the other requests carry no etag and no meta
PlainEtag(s) == None

\* Ok(CacheResult::Miss), lines 112-115
OnMiss(s) ==
    [s EXCEPT !.pc = "get", !.path = "miss", !.etag = PlainEtag(s), !.meta = None]

\* Ok(CacheResult::Stale(old_headers, meta)), lines 116-121
OnStale(s, old_headers, meta) ==
    [s EXCEPT !.pc = "get", !.path = "stale", !.etag = StaleEtag(old_headers),
              !.meta = Some(meta), !.old_headers = Some(old_headers)]

\* A probe error that is returned to the caller.
ReturnProbeError(s, why) ==
    [s EXCEPT !.pc = "done", !.path = "probe_err", !.log = Append(@, why),
              !.result = Some(Err(why))]

\* Err(why), lines 131-136: warn, then request the resource
OnProbeError(s, why) ==
    [s EXCEPT !.pc = "get", !.path = "probe_err", !.etag = PlainEtag(s),
              !.meta = None, !.log = Append(@, why)]

\* Ok(CacheResult::Hit(text_and_headers)), lines 108-111
OnHit(s, tah) ==
    [s EXCEPT !.pc = "map", !.path = "hit", !.tah = Some(tah)]

\* A Stale arm that repeats the request only after a transport error.
RetryTransportOnly(s, why) ==
    IF s.path = "stale" /\ ~s.retry /\ why.kind = "Reqwest"
    THEN [s EXCEPT !.pc = "get", !.retry = TRUE, !.etag = PlainEtag(s),
                   !.meta = None, !.resp = None, !.text = None,
                   !.log = Append(@, why)]
    ELSE [s EXCEPT !.pc = "done", !.result = Some(Err(why))]

\* A Stale arm that repeats the request only after a status error.
RetryStatusOnly(s, why) ==
    IF s.path = "stale" /\ ~s.retry /\ why.kind = "NonSuccessStatusCode"
    THEN [s EXCEPT !.pc = "get", !.retry = TRUE, !.etag = PlainEtag(s),
                   !.meta = None, !.resp = None, !.text = None,
                   !.log = Append(@, why)]
    ELSE [s EXCEPT !.pc = "done", !.result = Some(Err(why))]

\* A fetch that repeats the request after every first error, whatever the
\* probe had found.
RetryOnEveryPath(s, why) ==
    IF ~s.retry
    THEN [s EXCEPT !.pc = "get", !.retry = TRUE, !.etag = PlainEtag(s),
                   !.meta = None, !.resp = None, !.text = None,
                   !.log = Append(@, why)]
    ELSE [s EXCEPT !.pc = "done", !.result = Some(Err(why))]

\* A fetch that returns every error of get_and_update_cache at once.
ReturnEveryError(s, why) == [s EXCEPT !.pc = "done", !.result = Some(Err(why))]

\* A Stale arm whose retry still carries the entry's metadata.
RetryKeepingMeta(s, why) ==
    IF s.path = "stale" /\ ~s.retry
    THEN [s EXCEPT !.pc = "get", !.retry = TRUE, !.etag = PlainEtag(s),
                   !.resp = None, !.text = None, !.log = Append(@, why)]
    ELSE [s EXCEPT !.pc = "done", !.result = Some(Err(why))]

\* get_and_update_cache returned Err(why).  In the Stale arm the first call's
\* error is logged and the call repeated without etag and meta (lines
\* 123-128); everywhere else `?` returns it from fetch.
OnGetError(s, why) ==
    IF s.path = "stale" /\ ~s.retry
    THEN [s EXCEPT !.pc = "get", !.retry = TRUE, !.etag = PlainEtag(s),
                   !.meta = None, !.resp = None, !.text = None,
                   !.log = Append(@, why)]
    ELSE [s EXCEPT !.pc = "done", !.result = Some(Err(why))]

\* get_and_update_cache returned Ok(tah)
OnGetOk(s, tah) == [s EXCEPT !.pc = "map", !.tah = Some(tah)]

Step(p, s) == proc' = [proc EXCEPT ![p] = s] /\ UNCHANGED <<dummy, list, canteen>>

\* fetch, lines 96-107: parse the URL, then probe the cache
FetchStart(p, calls) ==
    /\ proc[p].pc = "idle"
    /\ \E c \in calls :
         LET url == UrlParse(c.raw)
             s == [Idle EXCEPT !.ttl = c.ttl, !.map = c.map]
         IN  IF url.ok
             THEN Step(p, [s EXCEPT !.pc = "probe", !.url = Some(url.val)])
             ELSE Step(p, [s EXCEPT !.pc = "done", !.result = Some(Err(url.err))])
    /\ UNCHANGED <<now, index, content>>

\* try_load_cache, lines 147-163: the index lookup, the freshness test and,
\* for a stale entry, the stored headers
AfterMeta(s, m, t) ==
    IF ~m.ok THEN OnProbeError(s, m.err)
    ELSE IF ~IsSome(m.val) THEN OnMiss(s)
    ELSE LET meta == Unwrap(m.val)
         IN  IF is_fresh(meta, s.ttl, t)
             THEN [s EXCEPT !.pc = "read", !.meta = Some(meta)]
             ELSE LET old == headers_from_metadata(meta)
                  IN  IF old.ok THEN OnStale(s, old.val, meta)
                      ELSE OnProbeError(s, old.err)

TryLoadMeta(p) ==
    /\ proc[p].pc = "probe"
    /\ \E io \in {"ok", "err"} :
         Step(p, AfterMeta(proc[p], read_cache_meta(index, Unwrap(proc[p].url), io), now))
    /\ UNCHANGED <<now, index, content>>

\* try_load_cache, lines 152-153: the payload of a fresh entry
AfterRead(s, raw) ==
    IF ~raw.ok THEN OnProbeError(s, raw.err)
    ELSE LET tah == to_text_and_headers(raw.val, Unwrap(s.meta).metadata)
         IN  IF tah.ok THEN OnHit(s, tah.val) ELSE OnProbeError(s, tah.err)

TryLoadRead(p) ==
    /\ proc[p].pc = "read"
    /\ \E io \in {"ok", "err"} :
         Step(p, AfterRead(proc[p], read_cache(content, Unwrap(proc[p].meta), io)))
    /\ UNCHANGED <<now, index, content>>

\* What a call records about a GET it made: the If-None-Match header it sent
\* and the transport error or status that came back.
GetRecord(etag, out) == [etag |-> etag, kind |-> out.kind, status |-> out.status]

\* get_and_update_cache, lines 178-205: send the request and match on the
\* response's status
AfterGet(s, out) ==
    LET s1 == [s EXCEPT !.gets = Append(@, GetRecord(s.etag, out))]
    IN  IF out.kind = "transport" THEN OnGetError(s1, ErrReqwest)
        ELSE IF IsSome(s.meta) /\ out.status = StatusNotModified
        THEN [s1 EXCEPT !.pc = "touch_read", !.resp = Some(out)]
        ELSE IF IsSuccess(out.status)
        THEN [s1 EXCEPT !.pc = "update", !.resp = Some(out)]
        ELSE OnGetError(s1, ErrNonSuccessStatusCode(Unwrap(s.url), out.status))

Get(p) ==
    /\ proc[p].pc = "get"
    /\ \E out \in ServerOutcomes(Unwrap(proc[p].url)) : Step(p, AfterGet(proc[p], out))
    /\ UNCHANGED <<now, index, content>>

\* What a call records about a cache write it made.
\* The key, the time, whether it was the touch after a 304 or the update from
\* a 2xx response, the number of GETs the call had made, and the outcome.
WriteRecord(key, res, t, touch, gets) ==
    [key |-> key, time |-> t, touch |-> touch, gets |-> Len(gets),
     ok |-> res.ok, err |-> IF res.ok THEN NoError ELSE res.err]

\* update_cache_from_response, line 213: the key is the response's URL
UpdateKey(s) == Unwrap(Unwrap(s.resp).url)

\* An update that ignores the error of its write, as the touch does.
UpdateIgnoringWrite(s, wr, body_ok, t) ==
    LET resp == Unwrap(s.resp)
        headers == HeadersFrom(resp.headers)
        s1 == [s EXCEPT !.writes =
                 Append(@, WriteRecord(UpdateKey(s), wr.res, t, FALSE, s.gets)),
                        !.log = IF wr.res.ok THEN @ ELSE Append(@, wr.res.err)]
    IN  IF ~body_ok THEN OnGetError(s, ErrReqwest)
        ELSE OnGetOk(s1, <<resp.body, headers>>)

\* update_cache_from_response, lines 211-217; wr is the write and its
\* outcome, body_ok whether resp.text() could read the body
AfterUpdate(s, wr, body_ok, t) ==
    LET resp == Unwrap(s.resp)
        headers == HeadersFrom(resp.headers)
        s1 == [s EXCEPT !.writes =
                 Append(@, WriteRecord(UpdateKey(s), wr.res, t, FALSE, s.gets))]
    IN  IF ~body_ok THEN OnGetError(s, ErrReqwest)
        ELSE IF ~wr.res.ok THEN OnGetError(s1, wr.res.err)
        ELSE OnGetOk(s1, <<resp.body, headers>>)

UpdateCache(p) ==
    /\ proc[p].pc = "update"
    /\ \E body_ok \in BOOLEAN, w \in WriteOutcomes :
         LET s == proc[p]
             resp == Unwrap(s.resp)
             wr == write_cache(index, content, now, HeadersFrom(resp.headers),
                               UpdateKey(s), resp.body, w)
         IN  /\ Step(p, AfterUpdate(s, wr, body_ok, now))
             /\ index' = IF body_ok THEN wr.index ELSE index
             /\ content' = IF body_ok THEN wr.content ELSE content
    /\ UNCHANGED now

\* A touch that returns the error of loading the payload to the caller of
\* fetch, past the retry of the Stale arm.
TouchReadReturningError(s, raw) ==
    IF ~raw.ok THEN [s EXCEPT !.pc = "done", !.result = Some(Err(raw.err))]
    ELSE LET tah == to_text_and_headers(raw.val, Unwrap(s.meta).metadata)
         IN  IF tah.ok
             THEN [s EXCEPT !.pc = "touch_write", !.text = Some(tah.val[1])]
             ELSE [s EXCEPT !.pc = "done", !.result = Some(Err(tah.err))]

\* touch_and_load_cache, lines 221-222: load the cached payload
AfterTouchRead(s, raw) ==
    IF ~raw.ok THEN OnGetError(s, raw.err)
    ELSE LET tah == to_text_and_headers(raw.val, Unwrap(s.meta).metadata)
         IN  IF tah.ok
             THEN [s EXCEPT !.pc = "touch_write", !.text = Some(tah.val[1])]
             ELSE OnGetError(s, tah.err)

TouchRead(p) ==
    /\ proc[p].pc = "touch_read"
    /\ \E io \in {"ok", "err"} :
         Step(p, AfterTouchRead(proc[p], read_cache(content, Unwrap(proc[p].meta), io)))
    /\ UNCHANGED <<now, index, content>>

\* touch_and_load_cache, line 225: .log_warn() turns the write's error into
\* a warning
LogWarn(log, res) == IF res.ok THEN log ELSE Append(log, res.err)

\* A touch that returns the error of its write with `?`.
TouchPropagatingWrite(s, wr, t) ==
    LET headers == HeadersFrom(Unwrap(s.resp).headers)
        text == Unwrap(s.text)
        s1 == [s EXCEPT !.writes =
                 Append(@, WriteRecord(Unwrap(s.url), wr.res, t, TRUE, s.gets))]
    IN  IF wr.res.ok THEN OnGetOk(s1, <<text, headers>>)
        ELSE OnGetError(s1, wr.res.err)

\* A touch that returns the headers that were stored with the entry.
TouchReturningStored(s, wr, t) ==
    LET text == Unwrap(s.text)
        s1 == [s EXCEPT !.writes =
                 Append(@, WriteRecord(Unwrap(s.url), wr.res, t, TRUE, s.gets)),
                        !.log = LogWarn(@, wr.res)]
    IN  OnGetOk(s1, <<text, Unwrap(s.old_headers)>>)

\* touch_and_load_cache, lines 225-226: write the payload back under the
\* headers of the 304 response, return the payload and those headers
AfterTouchWrite(s, wr, t) ==
    LET headers == HeadersFrom(Unwrap(s.resp).headers)
        text == Unwrap(s.text)
        s1 == [s EXCEPT !.writes =
                 Append(@, WriteRecord(Unwrap(s.url), wr.res, t, TRUE, s.gets)),
                        !.log = LogWarn(@, wr.res)]
    IN  OnGetOk(s1, <<text, headers>>)

TouchWrite(p) ==
    /\ proc[p].pc = "touch_write"
    /\ \E w \in WriteOutcomes :
         LET s == proc[p]
             wr == write_cache(index, content, now, HeadersFrom(Unwrap(s.resp).headers),
                               Unwrap(s.url), Unwrap(s.text), w)
         IN  /\ Step(p, AfterTouchWrite(s, wr, now))
             /\ index' = wr.index
             /\ content' = wr.content
    /\ UNCHANGED now

\* fetch, line 139: apply the map and return
Map(p) ==
    /\ proc[p].pc = "map"
    /\ Step(p, [proc[p] EXCEPT !.pc = "done",
                               !.result = Some(ApplyMap(proc[p].map, Unwrap(proc[p].tah)))])
    /\ UNCHANGED <<now, index, content>>

\* The caller takes the result; the process is ready for its next call.
Return(p) ==
    /\ proc[p].pc = "done"
    /\ Step(p, Idle)
    /\ UNCHANGED <<now, index, content>>

(***************************************************************************)
(* The environment: time, the explicit clear, and other writers of the     *)
(* cache directory.                                                        *)
(***************************************************************************)
Quiet == \A p \in Procs : proc[p].pc = "idle"

\* Time passes between calls: a call is short against the clock's step.
Tick ==
    /\ Quiet
    /\ now + TickMs <= MaxNow
    /\ now' = now + TickMs
    /\ UNCHANGED <<index, content, proc, dummy, list, canteen>>

\* wrapper::clear_cache: cacache::clear_sync removes every entry and blob
Clear ==
    /\ Quiet
    /\ index' = [k \in Keys |-> None]
    /\ content' = {}
    /\ UNCHANGED <<now, proc, dummy, list, canteen>>

\* An earlier version of the program refreshes an entry it finds with
\* cacache::write_sync(cache, url, raw), which stores no metadata (Null).
LegacyTouch(k) ==
    /\ Quiet
    /\ IsSome(index[k])
    /\ Unwrap(index[k]).integrity.of \in content
    /\ index' = [index EXCEPT ![k] =
                    Some([Unwrap(index[k]) EXCEPT !.time = now, !.metadata = JNull])]
    /\ UNCHANGED <<now, content, proc, dummy, list, canteen>>

\* Another program sharing the cache directory stores bytes that are not
\* UTF-8 under a key, with headers as metadata.
ForeignWrite(k) ==
    /\ Quiet
    /\ index' = [index EXCEPT ![k] =
                    Some(Metadata(k, InvalidUtf8Blob, now, ToValue(HeadersFrom(NoHeaders))))]
    /\ content' = content \cup {InvalidUtf8Blob}
    /\ UNCHANGED <<now, proc, dummy, list, canteen>>

Env ==
    \/ Tick
    \/ Clear
    \/ \E k \in Keys : LegacyTouch(k)
    \/ \E k \in Keys : ForeignWrite(k)

\* A call of fetch: the URL string, the TTL and the map.
Call(raw, ttl, map) == [raw |-> raw, ttl |-> ttl, map |-> map]
\* The calls of fetch(url, ttl), which returns (text, headers).
TextCalls == {Call(raw, ttl, "tah") : raw \in RawUrls, ttl \in TTLs}

Fetch(p, calls) ==
    \/ FetchStart(p, calls)
    \/ TryLoadMeta(p)
    \/ TryLoadRead(p)
    \/ Get(p)
    \/ UpdateCache(p)
    \/ TouchRead(p)
    \/ TouchWrite(p)
    \/ Map(p)
    \/ Return(p)

\* One process: the program as it runs, one blocking fetch at a time.
Next == Fetch(1, TextCalls) \/ Env

Spec == Init /\ [][Next]_vars

(***************************************************************************)
(* Properties.  The vocabulary of the statements.                          *)
(***************************************************************************)
\* A 2xx status, by its digits.
Is2xx(status) == status \div 100 = 2
IsResponse(get) == get.kind = "response"
Got2xx(get) == IsResponse(get) /\ Is2xx(get.status)
\* A status that is neither 304 nor 2xx.
GotOtherStatus(get) == IsResponse(get) /\ get.status # 304 /\ ~Is2xx(get.status)

\* The errors try_load_cache can return.
ProbeErrors ==
    {ErrCache("reading metadata"), ErrCache("reading value"), ErrDecodingUtf8,
     ErrDeserializing("loading headers from cache"),
     ErrDeserializing("reading headers from cache. Try clearing the cache.")}
\* The errors write_cache can return.
WriteErrors ==
    {ErrCache("opening for write"), ErrIo("writing value"), ErrCache("commiting write")}

\* A probe of key k with TTL ttl now, the store answering.
Probe(k, ttl) == try_load_cache(index, content, now, k, ttl, "ok", "ok")

\* The payload and headers of response resp, as a call returns them.
Fetched(resp) == <<resp.body, HeadersFrom(resp.headers)>>
\* Key k holds the body and projected headers of response resp.
Holds(k, resp) ==
    /\ IsSome(index[k])
    /\ Unwrap(index[k]).integrity = IntegrityOf(AsBytes(resp.body))
    /\ Unwrap(index[k]).metadata = ToValue(HeadersFrom(resp.headers))
    /\ AsBytes(resp.body) \in content
\* The call of s ended with the payload of its last response, which the
\* store holds under the response's URL.
ReturnedAndWritten(s) ==
    /\ s.result = Some(Ok(Fetched(Unwrap(s.resp))))
    /\ Holds(Unwrap(Unwrap(s.resp).url), Unwrap(s.resp))

\* C1: on a HIT (the probe found an entry fresh under ttl, with readable
\* payload and metadata) the call returns exactly the payload and the
\* Headers stored under the key, and makes no GET and no cache write.
C1_HitReturnsStored ==
    \A p \in Procs :
       LET s == proc[p]
       IN  s.path = "hit" =>
              /\ s.pc \in {"map", "done"}
              /\ s.gets = <<>>
              /\ s.writes = <<>>
              /\ IsSome(index[Unwrap(s.url)])
              /\ LET m == Unwrap(index[Unwrap(s.url)])
                     tah == Unwrap(s.tah)
                 IN  /\ is_fresh(m, s.ttl, now)
                     /\ m.integrity = IntegrityOf(AsBytes(tah[1]))
                     /\ FromValue(m.metadata).ok
                     /\ FromValue(m.metadata).val = tah[2]
              /\ (s.pc = "done" /\ s.map = "tah") => s.result = Some(Ok(Unwrap(s.tah)))

C1_Witness ==
    \E p \in Procs :
       /\ proc[p].pc = "done"
       /\ proc[p].path = "hit"
       /\ proc[p].result = Some(Ok(<<"[1]", HeadersFrom(PageHeaders)>>))

\* C2: probing a key that has no entry yields Miss; after a fetch of a URL
\* that ended well with a 2xx response, probing that URL's key with an
\* unbounded TTL yields Hit with the fetched body and the Headers projected
\* from the response.
C2_MissThenHit ==
    /\ \A k \in Keys : ~IsSome(index[k]) => Probe(k, DurationMax) = Ok(CacheMiss)
    /\ \A p \in Procs :
          LET s == proc[p]
          IN  (/\ s.pc = "done"
               /\ Unwrap(s.result).ok
               /\ s.gets # <<>>
               /\ Got2xx(s.gets[Len(s.gets)]))
              => Probe(Unwrap(s.url), DurationMax) = Ok(CacheHit(Fetched(Unwrap(s.resp))))

\* C3: when the conditional GET for a STALE entry is answered with 304, the
\* call returns the payload cached before and resets the entry's write
\* time, so that a probe at that same instant with the call's TTL yields
\* Hit.  Stated for a positive TTL and a touch whose write succeeded.
C3_RevalidatedIsHit ==
    \A p \in Procs :
       LET s == proc[p]
       IN  (/\ s.pc = "done"
            /\ s.path = "stale"
            /\ Len(s.gets) = 1
            /\ s.gets[1].status = 304
            /\ Len(s.writes) = 1
            /\ s.writes[1].ok
            /\ s.writes[1].time = now
            /\ DurationLess(DurationZero, s.ttl))
           => /\ Unwrap(s.result).ok
              /\ IntegrityOf(AsBytes(Unwrap(s.result).val[1])) = Unwrap(s.meta).integrity
              /\ Probe(Unwrap(s.url), s.ttl).ok
              /\ Probe(Unwrap(s.url), s.ttl).val.tag = "Hit"

\* C4: a GET carries If-None-Match exactly when it is the revalidation of a
\* STALE entry whose stored Headers hold an etag, and then with that etag;
\* the request on MISS, after a probe error and the fallback carry none.
C4_IfNoneMatchOnlyOnRevalidation ==
    \A p \in Procs :
       LET s == proc[p]
       IN  /\ \A i \in DOMAIN s.gets :
                IF i = 1 /\ s.path = "stale"
                THEN s.gets[i].etag = Unwrap(s.old_headers).etag
                ELSE s.gets[i].etag = None
           /\ (s.path = "stale" /\ s.writes = <<>>) =>
                \* the entry is stale, and old_headers are its stored Headers
                /\ IsSome(index[Unwrap(s.url)])
                /\ ~is_fresh(Unwrap(index[Unwrap(s.url)]), s.ttl, now)
                /\ Unwrap(index[Unwrap(s.url)]).metadata = ToValue(Unwrap(s.old_headers))

C4_Witness ==
    \E p \in Procs :
       /\ proc[p].pc = "done"
       /\ proc[p].path = "stale"
       /\ Len(proc[p].gets) = 2
       /\ proc[p].gets[1].etag = Some("static")
       /\ proc[p].gets[2].etag = None

\* The write a call made last succeeded.
LastWriteOk(s) == s.writes # <<>> /\ s.writes[Len(s.writes)].ok

\* C5: on STALE, a conditional GET answered with a status that is neither
\* 304 nor 2xx is followed by exactly one more GET, without If-None-Match and
\* handled as on MISS; when that one is answered with a non-2xx status the
\* call fails with the status error of the retry, and no third GET is made.
C5_StatusErrorRetriedOnce ==
    \A p \in Procs :
       LET s == proc[p]
       IN  (s.path = "stale" /\ s.gets # <<>> /\ GotOtherStatus(s.gets[1])) =>
              /\ Len(s.gets) <= 2
              /\ s.pc = "done" =>
                    /\ Len(s.gets) = 2
                    /\ s.gets[2].etag = None
                    /\ (IsResponse(s.gets[2]) /\ ~Is2xx(s.gets[2].status)) =>
                          /\ s.result = Some(Err(ErrNonSuccessStatusCode(Unwrap(s.url),
                                                                         s.gets[2].status)))
                          /\ s.writes = <<>>
                    /\ (Got2xx(s.gets[2]) /\ LastWriteOk(s)) => ReturnedAndWritten(s)

C5_Witness ==
    \E p \in Procs :
       /\ proc[p].pc = "done"
       /\ proc[p].path = "stale"
       /\ Len(proc[p].gets) = 2
       /\ proc[p].gets[1].status = StatusNotFound
       /\ proc[p].gets[1].etag = Some("static")
       /\ proc[p].gets[2].status = StatusNotFound
       /\ proc[p].result =
             Some(Err(ErrNonSuccessStatusCode(Unwrap(proc[p].url), StatusNotFound)))

\* C6: on STALE, a conditional GET that fails in the transport is followed
\* by exactly one GET without If-None-Match; the caller sees an error only
\* if that fallback fails too, and a fallback that succeeds writes the cache
\* and returns the new payload.
C6_TransportErrorFallsBack ==
    \A p \in Procs :
       LET s == proc[p]
       IN  (s.path = "stale" /\ s.gets # <<>> /\ s.gets[1].kind = "transport") =>
              /\ Len(s.gets) <= 2
              /\ s.pc = "done" =>
                    /\ Len(s.gets) = 2
                    /\ s.gets[2].etag = None
                    /\ ~Unwrap(s.result).ok => ~(Got2xx(s.gets[2]) /\ LastWriteOk(s))
                    /\ (Got2xx(s.gets[2]) /\ LastWriteOk(s)) => ReturnedAndWritten(s)

C6_Witness ==
    \E p \in Procs :
       /\ proc[p].pc = "done"
       /\ proc[p].path = "stale"
       /\ Len(proc[p].gets) = 2
       /\ proc[p].gets[1].kind = "transport"
       /\ proc[p].gets[2].status = StatusOk
       /\ proc[p].result = Some(Ok(<<"[1]", HeadersFrom(PageHeaders)>>))

\* C7: on MISS exactly one GET is made, without If-None-Match; a 2xx
\* response is written with its projected headers and returned; a non-2xx
\* response makes the call fail with the status error carrying the URL and
\* the status, no cache write is made and the key still has no entry.
C7_MissOneGet ==
    \A p \in Procs :
       LET s == proc[p]
       IN  s.path = "miss" =>
              /\ Len(s.gets) <= 1
              /\ s.pc \in {"update", "map", "done"} =>
                    /\ Len(s.gets) = 1
                    /\ s.gets[1].etag = None
              /\ (s.pc = "done" /\ IsResponse(s.gets[1]) /\ ~Is2xx(s.gets[1].status)) =>
                    /\ s.result = Some(Err(ErrNonSuccessStatusCode(Unwrap(s.url),
                                                                   s.gets[1].status)))
                    /\ s.writes = <<>>
                    /\ index[Unwrap(s.url)] = None
              /\ (s.pc = "done" /\ Got2xx(s.gets[1]) /\ LastWriteOk(s)) =>
                    /\ Len(s.writes) = 1
                    /\ ReturnedAndWritten(s)

C7_Witness ==
    \E p \in Procs :
       /\ proc[p].pc = "done"
       /\ proc[p].path = "miss"
       /\ Len(proc[p].gets) = 1
       /\ proc[p].gets[1].status = StatusNotModified
       /\ proc[p].result =
             Some(Err(ErrNonSuccessStatusCode(Unwrap(proc[p].url), StatusNotModified)))

\* C8: an error of the probe (metadata lookup, payload read or UTF-8
\* decoding of a fresh entry, stored headers that do not deserialize) is
\* logged and never returned: the call goes on as on MISS with one GET
\* without If-None-Match.
C8_ProbeErrorIsMiss ==
    \A p \in Procs :
       LET s == proc[p]
       IN  s.path = "probe_err" =>
              /\ s.log # <<>>
              /\ s.log[1] \in ProbeErrors
              /\ s.pc # "idle"
              /\ Len(s.gets) <= 1
              /\ \A i \in DOMAIN s.gets : s.gets[i].etag = None
              /\ s.pc = "done" =>
                    /\ Len(s.gets) = 1
                    /\ ~Unwrap(s.result).ok => Unwrap(s.result).err \notin ProbeErrors
                    /\ (Got2xx(s.gets[1]) /\ LastWriteOk(s)) => ReturnedAndWritten(s)

C8_Witness ==
    \E p \in Procs :
       /\ proc[p].pc = "done"
       /\ proc[p].path = "probe_err"
       /\ proc[p].log[1] = ErrDecodingUtf8
       /\ Len(proc[p].gets) = 1
       /\ Unwrap(proc[p].result).ok

\* A write of fetched content (not a touch) that failed.
FailedContentWrite(w) == ~w.touch /\ ~w.ok

C10_TouchFailureIgnored ==
    \A p \in Procs :
       LET s == proc[p]
       IN  \A i \in DOMAIN s.writes :
              LET w == s.writes[i]
              IN  (w.touch /\ ~w.ok) =>
                     /\ s.pc \in {"map", "done"}
                     /\ Len(s.gets) = 1
                     /\ Len(s.writes) = 1
                     /\ \E j \in DOMAIN s.log : s.log[j] = w.err
                     /\ index[Unwrap(s.url)] = s.meta
                     /\ s.tah = Some(<<Unwrap(s.text), HeadersFrom(Unwrap(s.resp).headers)>>)
                     /\ IntegrityOf(AsBytes(Unwrap(s.text))) = Unwrap(s.meta).integrity
                     /\ s.pc = "done" => s.result = Some(Ok(Unwrap(s.tah)))

C10_Witness ==
    \E p \in Procs :
       /\ proc[p].pc = "done"
       /\ proc[p].path = "stale"
       /\ Len(proc[p].writes) = 1
       /\ proc[p].writes[1].touch
       /\ proc[p].writes[1].err = ErrCache("opening for write")
       /\ proc[p].result = Some(Ok(<<"[1]", HeadersFrom(PageHeaders)>>))

\* The entry under k is stored with headers that deserialize.
HeadersDecode(k) == FromValue(Unwrap(index[k]).metadata).ok
\* The entry under k can be loaded: blob stored, UTF-8, headers deserialize.
Loadable(k) ==
    /\ Unwrap(index[k]).integrity.of \in content
    /\ FromUtf8(Unwrap(index[k]).integrity.of).ok
    /\ HeadersDecode(k)

\* The TTLs a freshness test of an entry of age `age` milliseconds is tried
\* with: the callers' and the two around the boundary ttl = age.
BoundaryTtls(age) == TTLs \cup {DurationMillis(age), DurationMillis(age + 1)}

\* C11: for an entry written by a fetch at T milliseconds, is_fresh(entry, ttl) is true
\* for every ttl > now - T and false for every ttl <= now - T, at the
\* boundary ttl = now - T and for write times that are not whole seconds too.
C11_FreshIffYoungerThanTtl ==
    \A k \in Keys :
       (IsSome(index[k]) /\ Loadable(k)) =>
          LET age == now - Unwrap(index[k]).time
          IN  \A ttl \in BoundaryTtls(age) :
                 is_fresh(Unwrap(index[k]), ttl, now)
                    <=> DurationLess(DurationMillis(age), ttl)

\* C12: a TTL of zero makes every existing entry not fresh, whenever it was
\* written: the probe never yields Hit and yields Stale for every entry whose
\* headers deserialize, and a call with that TTL never takes the Hit arm.  A
\* TTL of the maximum duration makes every existing entry fresh: the probe
\* never yields Stale and yields Hit for every entry that can be loaded, and
\* a call with that TTL never takes the Stale arm.
C12_ZeroStaleMaxFresh ==
    /\ \A k \in Keys :
          IsSome(index[k]) =>
             /\ ~is_fresh(Unwrap(index[k]), DurationZero, now)
             /\ is_fresh(Unwrap(index[k]), DurationMax, now)
             /\ HeadersDecode(k) =>
                   /\ Probe(k, DurationZero).ok
                   /\ Probe(k, DurationZero).val.tag = "Stale"
             /\ Loadable(k) =>
                   /\ Probe(k, DurationMax).ok
                   /\ Probe(k, DurationMax).val.tag = "Hit"
             /\ Probe(k, DurationZero).ok => Probe(k, DurationZero).val.tag = "Stale"
             /\ Probe(k, DurationMax).ok => Probe(k, DurationMax).val.tag = "Hit"
    /\ \A p \in Procs :
          /\ proc[p].ttl = DurationZero => proc[p].path # "hit" /\ proc[p].pc # "read"
          /\ proc[p].ttl = DurationMax => proc[p].path # "stale"

\* An entry written at a time that is not a whole second, probed later with
\* both TTLs by calls that took the Stale and the Hit arm.
C12_Witness ==
    \E k \in Keys :
       /\ IsSome(index[k])
       /\ Unwrap(index[k]).time % MillisPerSec # 0
       /\ Loadable(k)
       /\ \E p \in Procs :
             /\ proc[p].url = Some(k)
             /\ proc[p].ttl = DurationMax
             /\ proc[p].path = "hit"

\* The query parameters of a URL, without their order.
Params(u) == {u.query[i] : i \in DOMAIN u.query}
\* Two URLs that differ at most in the order of their query parameters.
SameButQueryOrder(u, v) ==
    u.scheme = v.scheme /\ u.host = v.host /\ Params(u) = Params(v)

FetchStep == proc' # proc
\* Every key that has an entry keeps one, and every blob stays stored.
EntriesKept ==
    /\ \A k \in Keys : IsSome(index[k]) => IsSome(index'[k])
    /\ content \subseteq content'

\* C14: no step of a fetch removes a cache entry: a key that has an entry
\* keeps one (possibly overwritten) whatever the call does, a stale entry,
\* a failed revalidation and a failed fetch included; only the explicit
\* clear removes entries.
C14_FetchNeverRemoves == [][FetchStep => EntriesKept]_vars

\* A call that found a stale entry and failed, twice, with the entry still
\* there.
C14_Witness ==
    \E p \in Procs :
       /\ proc[p].pc = "done"
       /\ proc[p].path = "stale"
       /\ Len(proc[p].gets) = 2
       /\ ~Unwrap(proc[p].result).ok
       /\ IsSome(index[Unwrap(proc[p].url)])
       /\ HeadersDecode(Unwrap(proc[p].url))
       /\ FromValue(Unwrap(index[Unwrap(proc[p].url)]).metadata).val
             = Unwrap(proc[p].old_headers)

(***************************************************************************)
(* The store on its own: writes and clears of both backends, called with   *)
(* any key, text and headers.                                              *)
(***************************************************************************)
\* Headers with only an etag.
EtagOnly == Headers(Some("static"), None, None, None)
\* The headers written: none, all, one.
StoreHeaders == {HeadersFrom(NoHeaders), HeadersFrom(PageHeaders), EtagOnly}

\* Cacache::write(headers, url, text), with its outcome
CacacheWrite(url, text, headers, w) ==
    LET wr == write_cache(index, content, now, headers, url, text, w)
    IN  /\ index' = wr.index
        /\ content' = wr.content
        /\ UNCHANGED <<now, proc, dummy, list, canteen>>

\* DummyCache::write(headers, url, text)
DummyCacheWrite(url, text, headers) ==
    /\ dummy' = DummyWrite(dummy, headers, url, text, now)
    /\ UNCHANGED <<now, index, content, proc, list, canteen>>

\* DummyCache::clear()
DummyCacheClear ==
    /\ dummy' = DummyClear(dummy)
    /\ UNCHANGED <<now, index, content, proc, list, canteen>>

StoreNext ==
    \/ \E url \in Keys, text \in Bodies, headers \in StoreHeaders, w \in WriteOutcomes :
          CacacheWrite(url, text, headers, w)
    \/ \E url \in Keys, text \in Bodies, headers \in StoreHeaders :
          DummyCacheWrite(url, text, headers)
    \/ Clear
    \/ DummyCacheClear
    \/ Tick

SpecStore == Init /\ [][StoreNext]_vars

\* This step is a successful write of (headers, url, text) to the store on
\* disk, resp. to the store in memory.
CacacheWrote(url, text, headers) ==
    /\ index' = write_cache(index, content, now, headers, url, text, "ok").index
    /\ content' = write_cache(index, content, now, headers, url, text, "ok").content
DummyWrote(url, text, headers) == dummy' = DummyWrite(dummy, headers, url, text, now)

\* Each entry is filed under its own key.
OneEntryPerKey ==
    /\ \A k \in Keys : IsSome(index[k]) => Unwrap(index[k]).key = k
    /\ \A q \in DOMAIN dummy :
          IsSome(dummy[q]) => path_from_key(Unwrap(dummy[q]).meta.key) = q
    /\ \A m1, m2 \in DummyList(dummy) : m1.key = m2.key => m1 = m2

\* No entry's write time goes back.
TimeNeverDecreases ==
    /\ \A k \in Keys :
          (IsSome(index[k]) /\ IsSome(index'[k])) =>
             Unwrap(index'[k]).time >= Unwrap(index[k]).time
    /\ \A q \in DOMAIN dummy :
          (IsSome(dummy[q]) /\ IsSome(dummy'[q])) =>
             Unwrap(dummy'[q]).meta.time >= Unwrap(dummy[q]).meta.time

\* A successful write leaves the key with the new payload and metadata and
\* the time of the write, and the other keys as they were.
WriteReplaces ==
    \A url \in Keys, text \in Bodies, headers \in StoreHeaders :
       /\ CacacheWrote(url, text, headers) =>
             /\ IsSome(index'[url])
             /\ Unwrap(index'[url]).integrity = IntegrityOf(AsBytes(text))
             /\ Unwrap(index'[url]).metadata = ToValue(headers)
             /\ Unwrap(index'[url]).time = now
             /\ \A k \in Keys \ {url} : index'[k] = index[k]
       /\ DummyWrote(url, text, headers) =>
             /\ IsSome(dummy'[path_from_key(url)])
             /\ Unwrap(dummy'[path_from_key(url)]).text = text
             /\ Unwrap(dummy'[path_from_key(url)]).meta.metadata = ToValue(headers)
             /\ Unwrap(dummy'[path_from_key(url)]).meta.time = now
             /\ \A q \in DOMAIN dummy \ {path_from_key(url)} : dummy'[q] = dummy[q]

\* C15: the store holds at most one entry per key; a successful write to a
\* key replaces the payload and the metadata of its entry, and across
\* successive successful writes the entry's write time never decreases.
C15_OverwriteMonotone ==
    [][OneEntryPerKey /\ OneEntryPerKey' /\ TimeNeverDecreases /\ WriteReplaces]_vars

\* An entry written at time 0 and overwritten later with another payload and
\* other headers, in both stores.
C15_Witness ==
    /\ now > 0
    /\ index[UrlAB] = Some(Metadata(UrlAB, AsBytes("oops"), now, ToValue(EtagOnly)))
    /\ AsBytes("[1]") \in content
    /\ dummy[path_from_key(UrlAB)] =
          Some(Entry(assemble_meta(EtagOnly, UrlAB, "oops", now), "oops"))

\* Reading key url back from the store on disk gives text and headers:
\* the metadata lookup, the payload read through the metadata, the decoding.
CacacheReadsBack(idx, cont, url, text, headers) ==
    LET m == read_cache_meta(idx, url, "ok")
    IN  /\ m.ok
        /\ IsSome(m.val)
        /\ read_cache(cont, Unwrap(m.val), "ok") = Ok(AsBytes(text))
        /\ to_text_and_headers(AsBytes(text), Unwrap(m.val).metadata) = Ok(<<text, headers>>)
        /\ headers_from_metadata(Unwrap(m.val)) = Ok(headers)
\* The same for the store in memory.
DummyReadsBack(d, url, text, headers) ==
    LET m == DummyMeta(d, url)
    IN  /\ m.ok
        /\ IsSome(m.val)
        /\ DummyRead(d, Unwrap(m.val)) = Ok(text)
        /\ headers_from_metadata(Unwrap(m.val)) = Ok(headers)

\* C16: round trip.  After write(headers, key, text) succeeds, the probe of
\* the key and the read through the metadata it returns yield the identical
\* text, and the metadata deserializes to Headers equal to the ones written,
\* in the store on disk and in the store in memory.
C16_RoundTrip ==
    [][\A url \in Keys, text \in Bodies, headers \in StoreHeaders :
          /\ CacacheWrote(url, text, headers) =>
                CacacheReadsBack(index', content', url, text, headers)
          /\ DummyWrote(url, text, headers) =>
                DummyReadsBack(dummy', url, text, headers)]_vars

\* Both stores hold a page with all four headers, and give it back.
C16_Witness ==
    /\ CacacheReadsBack(index, content, UrlBA, "[1]", HeadersFrom(PageHeaders))
    /\ DummyReadsBack(dummy, UrlBA, "[1]", HeadersFrom(PageHeaders))
    /\ IsSome(HeadersFrom(PageHeaders).next_page)
    /\ IsSome(HeadersFrom(PageHeaders).last_page)

(***************************************************************************)
(* Paginated retrieval: lists over the paginated upstream, drained by      *)
(* calls of next() or by consume(), each step one call of fetch.           *)
(***************************************************************************)
\* Steps that yield nothing taken on a list, and steps that fetch: one more
\* than the upstream has pages.
MaxNones == 2
MaxSteps == NumPages + 1

\* The TTLs the lists are given: always stale, always fresh.
PageTtls == {DurationZero, DurationMax}
\* The URLs a list starts at.
StartUrls == {PageUrl(1), UrlRelative}

\* The state of a call of fetch right after Url::parse, mod.rs lines 96-107.
Started(c) ==
    LET url == UrlParse(c.raw)
        s == [Idle EXCEPT !.ttl = c.ttl, !.map = c.map]
    IN  IF url.ok
        THEN [s EXCEPT !.pc = "probe", !.url = Some(url.val)]
        ELSE [s EXCEPT !.pc = "done", !.result = Some(Err(url.err))]

\* What a step yields for the result of its fetch, pagination.rs lines 83-101.
Yield(res) == IF res.ok THEN Ok(res.val[1]) ELSE res

\* An absent number counted as one that is beyond every page.
UnwrapOrBeyond(o) == IF IsSome(o) THEN Unwrap(o) ELSE 1000000

\* unwrap_or_default() of an Option<usize>
UnwrapOrDefault(o) == IF IsSome(o) THEN Unwrap(o) ELSE 0

\* A pending URL that follows the next link of every page that is not empty.
NextPageUncounted(pending, res) ==
    IF res.ok /\ res.val[1] # <<>> THEN res.val[3] ELSE pending

\* A pending URL that follows the next link of every page before the last.
NextPageOfEmpty(pending, res) ==
    IF res.ok /\ UnwrapOrDefault(res.val[2]) < UnwrapOrDefault(res.val[4])
    THEN res.val[3]
    ELSE pending

\* A pending URL that follows every next link there is.
NextPageFollowing(pending, res) ==
    IF res.ok /\ IsSome(res.val[3]) THEN res.val[3] ELSE pending

\* The pending URL after a step, pagination.rs lines 84-100: the next link,
\* if this page is before the last and its list is not empty; what the take
\* of line 77 left, otherwise.
NextPageAfter(pending, res) ==
    IF res.ok
       /\ UnwrapOrDefault(res.val[2]) < UnwrapOrDefault(res.val[4])
       /\ res.val[1] # <<>>
    THEN res.val[3]
    ELSE pending

\* A flatten_ok() that puts the later batches first.
RECURSIVE FlattenBackwards(_)
FlattenBackwards(steps) ==
    IF steps = <<>> THEN <<>>
    ELSE FlattenBackwards(Tail(steps)) \o Yield(Head(steps).res).val

\* flatten_ok() over the batches of the steps
RECURSIVE Flatten(_)
Flatten(steps) ==
    IF steps = <<>> THEN <<>>
    ELSE Yield(Head(steps).res).val \o Flatten(Tail(steps))

\* The list is not in a step, and whoever drains it may go on.
ListReady ==
    /\ list.lists > 0
    /\ proc[1].pc = "idle"
    /\ list.out = None

\* PaginatedList::new(url, ttl), pagination.rs lines 50-56, for a list that
\* is drained by `by`.
ListNew(url, ttl, by) ==
    /\ proc[1].pc = "idle"
    /\ list = NoList
    /\ list' = [PaginatedList(Some(url), ttl) EXCEPT !.by = by, !.lists = 1]
    /\ UNCHANGED <<now, index, content, proc, dummy, canteen>>

\* A next() that reads the pending URL and leaves it in place.
ListNextStartKeeping ==
    /\ ListReady
    /\ IsSome(list.next_page)
    /\ Len(list.steps) < MaxSteps
    /\ list' = list
    /\ proc' = [proc EXCEPT ![1] = Started(Call(Unwrap(list.next_page), list.ttl, "pages"))]
    /\ UNCHANGED <<now, index, content, dummy, canteen>>

\* next(), lines 77-78: take the pending URL and call fetch with it
ListNextStart ==
    /\ ListReady
    /\ IsSome(list.next_page)
    /\ Len(list.steps) < MaxSteps
    /\ list' = [list EXCEPT !.next_page = None]
    /\ proc' = [proc EXCEPT ![1] = Started(Call(Unwrap(list.next_page), list.ttl, "pages"))]
    /\ UNCHANGED <<now, index, content, dummy, canteen>>

\* A next() that, with no pending URL, yields nothing and starts over at
\* the URL the list was constructed with.
ListNextNoneRestarting ==
    /\ ListReady
    /\ ~IsSome(list.next_page)
    /\ list.nones < MaxNones
    /\ list' = [list EXCEPT !.nones = @ + 1, !.next_page = list.first,
                            !.out = IF list.by = "consume"
                                    THEN Some(Ok(Flatten(list.steps))) ELSE @]
    /\ UNCHANGED <<now, index, content, proc, dummy, canteen>>

\* next(), line 77: no pending URL, the step yields nothing.  For consume()
\* this ends the collection with the concatenated batches.
ListNextNone ==
    /\ ListReady
    /\ ~IsSome(list.next_page)
    /\ list.nones < MaxNones
    /\ list' = [list EXCEPT !.nones = @ + 1,
                            !.out = IF list.by = "consume"
                                    THEN Some(Ok(Flatten(list.steps))) ELSE @]
    /\ UNCHANGED <<now, index, content, proc, dummy, canteen>>

\* next(), lines 83-101: fetch has returned; set the pending URL and yield.
\* try_collect() of consume() stops at the first error and returns it.
ListNextEnd ==
    /\ list.lists > 0
    /\ proc[1].pc = "done"
    /\ LET res == Unwrap(proc[1].result)
           page == IF IsSome(proc[1].url) THEN proc[1].url ELSE None
       IN  list' = [list EXCEPT
                      !.next_page = NextPageAfter(list.next_page, res),
                      !.steps = Append(@, [res |-> res, page |-> page,
                                           gets |-> Len(proc[1].gets)]),
                      !.out = IF list.by = "consume" /\ ~res.ok THEN Some(res) ELSE @]
    /\ proc' = [proc EXCEPT ![1] = Idle]
    /\ UNCHANGED <<now, index, content, dummy, canteen>>

\* get_and_update_cache's request, answered by the paginated upstream
PageGet(p) ==
    /\ proc[p].pc = "get"
    /\ \E out \in PageOutcomes(Unwrap(proc[p].url)) : Step(p, AfterGet(proc[p], out))
    /\ UNCHANGED <<now, index, content>>

\* The cache before the list is made: empty, or holding every page as an
\* earlier retrieval fetched and wrote it.
WarmIndex ==
    [k \in PageKeys |->
        Some(Metadata(k, AsBytes(PageBodies[PageNumber(k)]), 0,
                      ToValue(HeadersFrom(FullPageHeaders(PageNumber(k))))))]
WarmContent == {AsBytes(PageBodies[i]) : i \in 1..NumPages}

PagesInit ==
    /\ now = 0
    /\ \/ index = [k \in PageKeys |-> None] /\ content = {}
       \/ index = WarmIndex /\ content = WarmContent
    /\ proc = [p \in Procs |-> Idle]
    /\ dummy = DummyInit
    /\ list = NoList
    /\ canteen = CanteenFrom("1")

PagesNext ==
    \/ \E url \in StartUrls, ttl \in PageTtls, by \in {"next", "consume"} :
          ListNew(url, ttl, by)
    \/ ListNextStart
    \/ ListNextNone
    \/ ListNextEnd
    \/ TryLoadMeta(1)
    \/ TryLoadRead(1)
    \/ PageGet(1)
    \/ UpdateCache(1)
    \/ TouchRead(1)
    \/ TouchWrite(1)
    \/ Map(1)

SpecPages == PagesInit /\ [][PagesNext]_vars

\* Step st fetched page i of the upstream and got it as the upstream holds
\* it: the list of page i, this_page i, the next link, last_page NumPages.
GoodStep(st, i) ==
    /\ st.page = Some(UrlParse(PageUrl(i)).val)
    /\ st.res = Ok(<<<<i>>, Some(i), Some(PageUrl(NextOf(i))), Some(NumPages)>>)
\* Every step so far got the page it asked for.
UpstreamBehaved ==
    \A j \in DOMAIN list.steps : \E i \in 1..NumPages : GoodStep(list.steps[j], i)

\* C17: when every page i comes back with this_page i, last_page n, a list
\* that is not empty and a next link, a retrieval started at page 1 yields
\* the n batches in page order and then ends: after the batch of page n no
\* fetch is made, although that response carries a next link too.
C17_AllPagesThenEnd ==
    (list.first = Some(PageUrl(1)) /\ UpstreamBehaved) =>
       /\ \A j \in DOMAIN list.steps : GoodStep(list.steps[j], j)
       /\ Len(list.steps) <= NumPages
       /\ proc[1].pc # "idle" =>
             /\ Len(list.steps) < NumPages
             /\ proc[1].url = Some(UrlParse(PageUrl(Len(list.steps) + 1)).val)
       /\ proc[1].pc = "idle" =>
             list.next_page = IF Len(list.steps) < NumPages
                              THEN Some(PageUrl(Len(list.steps) + 1))
                              ELSE None
       /\ list.nones > 0 => Len(list.steps) = NumPages

C17_Witness ==
    /\ list.first = Some(PageUrl(1))
    /\ list.by = "next"
    /\ UpstreamBehaved
    /\ Len(list.steps) = NumPages
    /\ IsSome(list.steps[NumPages].res.val[3])
    /\ list.nones = MaxNones

\* The list of step st is empty.
EmptyBatch(st) == st.res.ok /\ st.res.val[1] = <<>>
\* Step j is the last one, and no URL is pending after it.
EndsAt(j) ==
    /\ j = Len(list.steps)
    /\ proc[1].pc = "idle"
    /\ list.next_page = None

\* C18: a page whose list is empty ends the retrieval: the empty batch is
\* yielded and no page is fetched after it, also when this_page < last_page
\* and a next link is there.
C18_EmptyPageEnds ==
    \A j \in DOMAIN list.steps :
       EmptyBatch(list.steps[j]) =>
          /\ EndsAt(j)
          /\ Yield(list.steps[j].res) = Ok(<<>>)

C18_Witness ==
    /\ Len(list.steps) = 2
    /\ list.steps[2].res = Ok(<<<<>>, Some(2), Some(PageUrl(3)), Some(NumPages)>>)
    /\ list.nones > 0

\* C19: when the fetch or the deserialization of a page fails, the step
\* yields that error as the last item of the retrieval: no page is fetched
\* after it, and every later step yields nothing.
C19_ErrorEnds ==
    \A j \in DOMAIN list.steps :
       ~list.steps[j].res.ok =>
          /\ EndsAt(j)
          /\ Yield(list.steps[j].res) = Err(list.steps[j].res.err)

\* A page that is no list, then steps that yield nothing.
C19_Witness ==
    /\ list.by = "next"
    /\ Len(list.steps) = 2
    /\ list.steps[1].res.ok
    /\ list.steps[2].res = Err(ErrDeserializing("fetching json in pagination iterator"))
    /\ list.nones = MaxNones

\* The batches of the steps one after the other, in the order of the steps.
RECURSIVE InPageOrder(_)
InPageOrder(steps) ==
    IF steps = <<>> THEN <<>>
    ELSE Head(steps).res.val[1] \o InPageOrder(Tail(steps))

\* C20: consume() returns the batches of all pages concatenated in page
\* order when every page succeeds, and the first error otherwise, without
\* fetching any page after the one that failed.
C20_ConsumeConcatenates ==
    list.by = "consume" =>
       /\ IsSome(list.out) =>
             /\ proc[1].pc = "idle"
             /\ IF \A j \in DOMAIN list.steps : list.steps[j].res.ok
                THEN /\ list.out = Some(Ok(InPageOrder(list.steps)))
                     /\ list.next_page = None \/ Len(list.steps) = MaxSteps
                ELSE /\ list.out = Some(Err(list.steps[Len(list.steps)].res.err))
                     /\ \A j \in 1..(Len(list.steps) - 1) : list.steps[j].res.ok
       /\ (\E j \in DOMAIN list.steps : ~list.steps[j].res.ok) => IsSome(list.out)
       /\ list.nones > 0 => IsSome(list.out)

C20_Witness ==
    /\ list.by = "consume"
    /\ Len(list.steps) = NumPages
    /\ list.out = Some(Ok([j \in 1..NumPages |-> j]))

\* consume() that ended with the error of its second page.
C20_WitnessError ==
    /\ list.by = "consume"
    /\ Len(list.steps) = 2
    /\ list.out = Some(Err(ErrNonSuccessStatusCode(UrlParse(PageUrl(2)).val, StatusNotFound)))


(***************************************************************************)
(* fetch with a deserializing map: fetch_json and the closure of the       *)
(* pagination step, called on one URL.                                     *)
(***************************************************************************)
DecodingMaps == {"json", "pages"}
DecodingCalls == {Call(UrlAB, ttl, map) : ttl \in TTLs, map \in DecodingMaps}

NextDecoding == Fetch(1, DecodingCalls) \/ Env

SpecDecoding == Init /\ [][NextDecoding]_vars

\* The context each map gives to its Error::Deserializing.
DecodingContext(map) ==
    IF map = "json" THEN "fetching json" ELSE "fetching json in pagination iterator"

\* The texts that are no JSON list.
UndecodableTexts == {"oops", ""}

\* C21: a payload that does not deserialize into the requested type makes
\* fetch_json, and the fetch of a pagination step, return the
\* deserialization error, whether the payload came from the network or
\* from the cache; never a default value or an empty result.
C21_UndecodableIsError ==
    \A p \in Procs :
       LET s == proc[p]
       IN  (/\ s.pc = "done"
            /\ s.map \in DecodingMaps
            /\ IsSome(s.tah)
            /\ Unwrap(s.tah)[1] \in UndecodableTexts)
           => s.result = Some(Err(ErrDeserializing(DecodingContext(s.map))))

\* The payload came from the cache.
C21_Witness ==
    /\ proc[1].pc = "done"
    /\ proc[1].map = "json"
    /\ proc[1].path = "hit"
    /\ proc[1].gets = <<>>
    /\ IsSome(proc[1].tah)
    /\ Unwrap(proc[1].tah)[1] = "oops"
    /\ proc[1].result = Some(Err(ErrDeserializing("fetching json")))

\* The payload came from the network, in the fetch of a pagination step.
C21_WitnessNetwork ==
    /\ proc[1].pc = "done"
    /\ proc[1].map = "pages"
    /\ proc[1].path = "miss"
    /\ Len(proc[1].gets) = 1
    /\ IsSome(proc[1].tah)
    /\ Unwrap(proc[1].tah)[1] = "oops"
    /\ proc[1].result = Some(Err(ErrDeserializing("fetching json in pagination iterator")))


(***************************************************************************)
(* Two fetch calls at once: threads or processes sharing the cache         *)
(* directory, each in its own call of fetch on the same URL.               *)
(***************************************************************************)
RaceTtls == {DurationZero, DurationMax}
RaceCalls == {Call(UrlAB, ttl, "tah") : ttl \in RaceTtls}

\* The entry an earlier call left under the key of the race.
RaceKey == UrlParse(UrlAB).val
RaceEntry == Metadata(RaceKey, AsBytes("[1]"), 0, ToValue(HeadersFrom(PageHeaders)))

\* The cache before the race: empty, or holding the entry.
InitRace ==
    /\ now = 0
    /\ \/ index = [k \in Keys |-> None] /\ content = {}
       \/ index = [k \in Keys |-> IF k = RaceKey THEN Some(RaceEntry) ELSE None]
          /\ content = {AsBytes("[1]")}
    /\ proc = [p \in Procs |-> Idle]
    /\ dummy = DummyInit
    /\ list = NoList
    /\ canteen = CanteenFrom("1")

\* One call of fetch by process p, from its start to its result.
FetchOnce(p) ==
    \/ FetchStart(p, RaceCalls)
    \/ TryLoadMeta(p)
    \/ TryLoadRead(p)
    \/ Get(p)
    \/ UpdateCache(p)
    \/ TouchRead(p)
    \/ TouchWrite(p)
    \/ Map(p)

NextRace == \E p \in Procs : FetchOnce(p)

SpecRace == InitRace /\ [][NextRace]_vars


\* Process p has made a write in this step, and the write succeeded.
WroteOk(p) ==
    /\ Len(proc'[p].writes) = Len(proc[p].writes) + 1
    /\ proc'[p].writes[Len(proc'[p].writes)].ok

\* What the call of process p stores with the write of this step: the text
\* and headers the write was given, under the key of the call.
StoredBy(p) ==
    LET tah == Unwrap(proc'[p].tah)
        key == Unwrap(proc[p].url)
    IN  Metadata(key, AsBytes(tah[1]), now, ToValue(tah[2]))

\* A call that missed or found a stale entry and returned a result has made
\* a GET and a write of its own.
OwnGetAndWrite ==
    \A p \in Procs :
       (/\ proc[p].pc = "done"
        /\ proc[p].path \in {"miss", "stale"}
        /\ Unwrap(proc[p].result).ok)
       => proc[p].gets # <<>> /\ proc[p].writes # <<>>

\* The write of this step replaces whatever is stored under the key.
LastWriteWins ==
    \A p \in Procs :
       WroteOk(p) => index'[Unwrap(proc[p].url)] = Some(StoredBy(p))

\* C22: two fetch calls racing on the same missing or stale key are not
\* deduplicated: each makes its own GET and its own cache write, and the
\* entry stored under the key is the one of the write that happened last.
C22_RaceLastWriteWins == []OwnGetAndWrite /\ [][LastWriteWins]_vars

\* The same, for writes whose response carries the URL that was requested.
LastDirectWriteWins ==
    \A p \in Procs :
       (WroteOk(p) /\ proc'[p].writes[Len(proc'[p].writes)].key = Unwrap(proc[p].url))
       => index'[Unwrap(proc[p].url)] = Some(StoredBy(p))
RaceLastDirectWriteWins == []OwnGetAndWrite /\ [][LastDirectWriteWins]_vars

\* Both calls missed, both wrote under the key, and the entry is the one of
\* the second writer.
RaceHappened ==
    /\ \A p \in Procs :
          /\ proc[p].pc = "done"
          /\ proc[p].path = "miss"
          /\ Len(proc[p].writes) = 1
          /\ proc[p].writes[1].ok
          /\ proc[p].writes[1].key = RaceKey
    /\ Unwrap(proc[1].tah)[1] = "[1]"
    /\ Unwrap(proc[2].tah)[1] = "oops"
    /\ IsSome(index[RaceKey])
    /\ Unwrap(index[RaceKey]).integrity = IntegrityOf(AsBytes("oops"))


\* Process p ends a 304 revalidation in this step: the touch has read the
\* payload and writes it back.
Revalidated(p) == proc[p].pc = "touch_write" /\ proc'[p].pc = "map"

\* The headers of the response process p holds, and the entry under its key.
ResponseHeaders(p) == HeadersFrom(Unwrap(proc[p].resp).headers)
EntryOf(p) == Unwrap(index[Unwrap(proc[p].url)])

\* The revalidation returns the payload that was stored and the headers of
\* the 304 response; its write, when it succeeds, stores the two together.
RevalidationKeepsPayload ==
    \A p \in Procs :
       Revalidated(p) =>
          LET key == Unwrap(proc[p].url)
              was == EntryOf(p)
              headers == ResponseHeaders(p)
          IN  /\ Unwrap(proc[p].resp).status = 304
              /\ FromUtf8(was.integrity.of).ok
              /\ proc'[p].tah = Some(<<FromUtf8(was.integrity.of).val, headers>>)
              /\ WroteOk(p) =>
                    /\ IsSome(index'[key])
                    /\ Unwrap(index'[key]).integrity = was.integrity
                    /\ Unwrap(index'[key]).integrity.of \in content'
                    /\ FromValue(Unwrap(index'[key]).metadata).ok
                    /\ FromValue(Unwrap(index'[key]).metadata).val = headers

\* C23: after a 304 revalidation the Headers stored with the entry and the
\* Headers returned to the caller are those projected from the 304
\* response, in place of the ones stored before; the payload stored and
\* returned is the one that was cached.
C23_RevalidationHeaders == [][RevalidationKeepsPayload]_vars

\* A revalidation whose 304 carried other headers than the stored ones.
C23_Witness ==
    /\ proc[1].pc = "map"
    /\ proc[1].path = "stale"
    /\ ~proc[1].retry
    /\ proc[1].writes # <<>>
    /\ proc[1].writes[Len(proc[1].writes)].touch
    /\ proc[1].writes[Len(proc[1].writes)].ok
    /\ Unwrap(proc[1].old_headers) = HeadersFrom(PageHeaders)
    /\ Unwrap(proc[1].tah) = <<"[1]", HeadersFrom(NoHeaders)>>
    /\ FromValue(Unwrap(index[Unwrap(proc[1].url)]).metadata).val = HeadersFrom(NoHeaders)
    /\ Unwrap(index[Unwrap(proc[1].url)]).integrity = IntegrityOf(AsBytes("[1]"))


(***************************************************************************)
(* A call of fetch runs to its end: the calls of the store and of the      *)
(* network are blocking and return, so the call that has begun goes on     *)
(* until it has its result.                                                *)
(***************************************************************************)
FetchRun(p) ==
    \/ TryLoadMeta(p)
    \/ TryLoadRead(p)
    \/ Get(p)
    \/ UpdateCache(p)
    \/ TouchRead(p)
    \/ TouchWrite(p)
    \/ Map(p)

SpecFair == Spec /\ WF_vars(FetchRun(1))

\* The GETs a call has made, by the outcome of its probe.
GetsByPath ==
    \A p \in Procs :
       LET s == proc[p]
       IN  /\ Len(s.gets) <= 2
           /\ s.path = "hit" => s.gets = <<>>
           /\ s.path \in {"miss", "probe_err"} =>
                 /\ Len(s.gets) <= 1
                 /\ s.pc \in {"update", "map", "done"} => Len(s.gets) = 1
           /\ (/\ s.path = "miss"
               /\ s.pc = "done"
               /\ s.gets[1].kind = "transport" \/ ~Is2xx(s.gets[1].status))
              => /\ Len(s.gets) = 1
                 /\ ~Unwrap(s.result).ok
                 /\ Unwrap(s.result).err.kind \in {"Reqwest", "NonSuccessStatusCode"}
           /\ (s.path = "stale" /\ s.pc \in {"update", "map", "done", "touch_read", "touch_write"})
              => Len(s.gets) \in {1, 2}
           /\ s.pc = "done" => IsSome(s.result)

\* The call of process 1 has begun and has not ended.
InCall == proc[1].pc \notin {"idle", "done"}
Ended == proc[1].pc = "done" /\ IsSome(proc[1].result)

\* C24: a fetch call makes no GET on HIT, exactly one on MISS, where a
\* transport error or a status that is not 2xx is returned without a
\* retry, and at most two on STALE; never more than two; and every call
\* ends with a result or an error.
C24_GetsBoundedAndEnds == []GetsByPath /\ (InCall ~> Ended)

\* A STALE call that ended after its second GET.
C24_Witness ==
    /\ proc[1].pc = "done"
    /\ proc[1].path = "stale"
    /\ Len(proc[1].gets) = 2
    /\ proc[1].gets[2].kind = "transport"
    /\ proc[1].result = Some(Err(ErrReqwest))


\* The call of s got a 2xx response to its first GET and made its write.
FirstGetWritten(s) ==
    /\ s.pc = "done"
    /\ s.gets # <<>>
    /\ Got2xx(s.gets[1])
    /\ s.writes # <<>>
    /\ s.writes[1].gets = 1
    /\ ~s.writes[1].touch

\* MISS handling of a 2xx response: one GET, one write under the response's
\* URL, and the caller gets the payload with the projected headers, or the
\* error of the write.
HandledAsOnMiss(s) ==
    /\ Len(s.gets) = 1
    /\ Len(s.writes) = 1
    /\ IF s.writes[1].ok
       THEN /\ IsSome(s.resp)
            /\ s.writes[1].key = Unwrap(Unwrap(s.resp).url)
            /\ ReturnedAndWritten(s)
       ELSE s.result = Some(Err(s.writes[1].err))

FellBackAfter(s, w) ==
    /\ s.retry
    /\ \E j \in DOMAIN s.log : s.log[j] = w.err
    /\ Len(s.gets) = 2
    /\ s.gets[2].etag = None
    /\ (Got2xx(s.gets[2]) /\ LastWriteOk(s)) => ReturnedAndWritten(s)
    /\ ~Got2xx(s.gets[2]) => ~Unwrap(s.result).ok /\ Len(s.writes) = 1
    /\ ~LastWriteOk(s) => ~Unwrap(s.result).ok

C25_WitnessFallback ==
    /\ proc[1].path = "stale"
    /\ FirstGetWritten(proc[1])
    /\ ~proc[1].writes[1].ok
    /\ Len(proc[1].gets) = 2
    /\ Len(proc[1].writes) = 2
    /\ proc[1].writes[2].ok
    /\ Unwrap(proc[1].result).ok


(***************************************************************************)
(* Header projection on its own: a response with any combination of        *)
(* present, absent and malformed headers, and the conversion into Headers. *)
(***************************************************************************)
\* The values of an ETag header: none, a tag, bytes that are no string.
EtagValues == {None, Some(RawValue("static")), Some(OpaqueValue)}
\* The values of a page-number header: none, numbers, text that is no
\* number, bytes that are no string.
PageValues ==
    {None, Some(RawValue("0")), Some(RawValue("2")), Some(RawValue("two")),
     Some(RawValue("")), Some(RawValue("-1")), Some(OpaqueValue)}
\* The values of a Link header: none, no link in it, a link that is not the
\* next one, the next link alone and after another, bytes that are no string.
OpaqueLinks == [visible |-> FALSE, s |-> <<Link(UrlBA, "next")>>]
LinkValues ==
    {None, Some(RawValue(<<>>)), Some(RawValue(<<Link(UrlAB, "prev")>>)),
     Some(RawValue(<<Link(UrlBA, "next")>>)),
     Some(RawValue(<<Link(UrlAB, "prev"), Link(UrlBA, "next")>>)),
     Some(OpaqueLinks)}
HeaderMaps ==
    {HeaderMap(e, c, l, t) : e \in EtagValues, c \in PageValues,
                             l \in LinkValues, t \in PageValues}

\* A response has arrived with some headers.
InitHeaders ==
    /\ now = 0
    /\ index = [k \in Keys |-> None]
    /\ content = {}
    /\ \E map \in HeaderMaps :
          proc = [p \in Procs |->
                    IF p = 1
                    THEN [Idle EXCEPT !.resp = Some(Response(StatusOk, map, "", RaceKey))]
                    ELSE Idle]
    /\ dummy = DummyInit
    /\ list = NoList
    /\ canteen = CanteenFrom("1")

\* resp.headers().clone().into()
Project(p) ==
    /\ IsSome(proc[p].resp)
    /\ proc[p].tah = None
    /\ Step(p, [proc[p] EXCEPT !.tah = Some(Fetched(Unwrap(proc[p].resp)))])
    /\ UNCHANGED <<now, index, content>>

NextHeaders == Project(1)

SpecHeaders == InitHeaders /\ [][NextHeaders]_vars

\* The header maps process p's response carries, and the Headers it made
\* of them.
Carried(p) == Unwrap(proc[p].resp).headers
Projected(p) == Unwrap(proc[p].tah)[2]

\* The numbers the page headers of the model spell.
Numerals == {<<"0", 0>>, <<"2", 2>>}
\* The value of a header is missing, or is no string.
Unreadable(v) == v = None \/ ~Unwrap(v).visible
\* What a page-number field must be for the header value v.
PageFieldFor(field, v) ==
    IF Unreadable(v) \/ ~\E n \in Numerals : n[1] = Unwrap(v).s
    THEN field = None
    ELSE \E n \in Numerals : n[1] = Unwrap(v).s /\ field = Some(n[2])
\* A Link value has a link with rel="next".
HasNext(v) ==
    /\ ~Unreadable(v)
    /\ \E i \in DOMAIN Unwrap(v).s : Unwrap(v).s[i].rel = "next"

\* C26: header projection is total and field-independent: for every
\* combination of present, absent or malformed ETag, x-current-page,
\* x-total-pages and Link headers it gives a Headers value, each field
\* depends on its own header only, and a missing, non-numeric or
\* non-matching header gives an absent field.
C26_ProjectionTotal ==
    \A p \in Procs :
       IsSome(proc[p].tah) /\ IsSome(proc[p].resp) =>
          LET map == Carried(p)
              h == Projected(p)
          IN  /\ DOMAIN h = {"etag", "this_page", "next_page", "last_page"}
              /\ h.etag = IF Unreadable(map.etag) THEN None
                          ELSE Some(Unwrap(map.etag).s)
              /\ PageFieldFor(h.this_page, map.xcur)
              /\ PageFieldFor(h.last_page, map.xtot)
              /\ IF HasNext(map.link) THEN h.next_page = Some(UrlBA)
                 ELSE h.next_page = None

\* Two malformed headers beside two good ones.
C26_Witness ==
    /\ IsSome(proc[1].tah)
    /\ Carried(1) = HeaderMap(Some(OpaqueValue), Some(RawValue("two")),
                              Some(RawValue(<<Link(UrlAB, "prev"), Link(UrlBA, "next")>>)),
                              Some(RawValue("2")))
    /\ Projected(1) = Headers(None, None, Some(UrlBA), Some(2))


\* Step st got a page whose headers have last_page and lack this_page.
Uncounted(st) == st.res.ok /\ st.res.val[2] = None /\ IsSome(st.res.val[4])

\* C27 as stated: an absent this_page is not counted as page 0: after a
\* response with last_page present and this_page absent no page is fetched
\* on account of this_page < last_page.
C27_AbsentNotZero ==
    \A j \in DOMAIN list.steps : Uncounted(list.steps[j]) => EndsAt(j)

\* An absent number of a page, counted as 0.
CountedAs(o) == IF o = None THEN 0 ELSE o[1]

\* The URL that is pending after a step that got page val.
PendingAfter(val) ==
    IF CountedAs(val[2]) < CountedAs(val[4]) /\ val[1] # <<>> THEN val[3] ELSE None

\* C27 amended: in the test this_page < last_page an absent field counts as
\* 0: the URL pending after a page is its next link if this_page, or 0 for
\* an absent one, is below last_page, or 0, and the list is not empty; so a
\* page that is not empty, has last_page >= 1 and lacks this_page has its
\* next link fetched.
C27_AbsentCountsAsZero ==
    \A j \in DOMAIN list.steps :
       LET st == list.steps[j]
       IN  st.res.ok =>
              /\ (j = Len(list.steps) /\ proc[1].pc = "idle")
                    => list.next_page = PendingAfter(st.res.val)
              /\ (j < Len(list.steps) /\ IsSome(list.steps[j + 1].page))
                    => /\ IsSome(PendingAfter(st.res.val))
                       /\ UrlParse(Unwrap(PendingAfter(st.res.val))).ok
                       /\ list.steps[j + 1].page =
                             Some(UrlParse(Unwrap(PendingAfter(st.res.val))).val)
              /\ (Uncounted(st) /\ st.res.val[1] # <<>> /\ Unwrap(st.res.val[4]) >= 1)
                    => PendingAfter(st.res.val) = st.res.val[3]

\* Page 1 came without x-current-page, and page 2 was fetched after it.
C27_Witness ==
    /\ Len(list.steps) >= 2
    /\ Uncounted(list.steps[1])
    /\ list.steps[1].res.val = <<<<1>>, None, Some(PageUrl(2)), Some(NumPages)>>
    /\ list.steps[2].page = Some(UrlParse(PageUrl(2)).val)
    /\ list.steps[2].gets = 1


\* The entries of the two stores, as list() gives them.
CacacheList(idx) == {Unwrap(idx[k]) : k \in {q \in DOMAIN idx : IsSome(idx[q])}}

\* This step has written an entry of the cacache store, of the DummyCache.
CacacheEntryWritten == \E k \in Keys : IsSome(index'[k]) /\ index'[k] # index[k]
DummyEntryWritten == \E p \in DummyPaths : IsSome(dummy'[p]) /\ dummy'[p] # dummy[p]

\* This step is a clear: it has changed the store and has written no entry.
CacacheCleared == (index' # index \/ content' # content) /\ ~CacacheEntryWritten
DummyCleared == dummy' # dummy /\ ~DummyEntryWritten

\* No key has an entry: every probe finds none, the listing is empty, and
\* try_load_cache gives Miss for every URL and TTL at time t.
CacacheEmpty(idx, cont, t) ==
    /\ \A k \in Keys : read_cache_meta(idx, k, "ok") = Ok(None)
    /\ CacacheList(idx) = {}
    /\ \A k \in Keys, ttl \in TTLs :
          try_load_cache(idx, cont, t, k, ttl, "ok", "ok") = Ok(CacheMiss)
DummyEmpty(d) ==
    /\ \A k \in Keys : DummyMeta(d, k) = Ok(None)
    /\ DummyList(d) = {}

\* After a clear the store is empty, and an empty store stays empty in
\* every step that writes no entry.
ClearEmpties ==
    /\ CacacheCleared => CacacheEmpty(index', content', now')
    /\ DummyCleared => DummyEmpty(dummy')
    /\ (CacacheEmpty(index, content, now) /\ ~CacacheEntryWritten)
          => CacacheEmpty(index', content', now')
    /\ (DummyEmpty(dummy) /\ ~DummyEntryWritten) => DummyEmpty(dummy')

\* C28: after clear() succeeds, probing any key finds no entry and listing
\* gives no entries, until the next write; so the next fetch of any URL is
\* a MISS.
C28_ClearEmpties == [][ClearEmpties]_vars

(***************************************************************************)
(* A reader of the store: meta(url) gives it the Metadata of an entry, and *)
(* read(meta) the payload, while writes and clears of the store go on.     *)
(***************************************************************************)
Backends == {"cacache", "dummy"}

\* Cacache::read(meta): the blob by its hash, as a String
CacacheRead(cont, meta, io) ==
    LET raw == read_cache(cont, meta, io)
    IN  IF raw.ok THEN FromUtf8(raw.val) ELSE raw

\* meta(url) of backend b
MetaOf(b, url) ==
    IF b = "cacache" THEN read_cache_meta(index, url, "ok") ELSE DummyMeta(dummy, url)

\* The reader probes url and finds an entry.
ReaderMeta(p, b, url) ==
    /\ proc[p].pc = "idle"
    /\ IsSome(MetaOf(b, url).val)
    /\ Step(p, [Idle EXCEPT !.pc = "held", !.path = b, !.url = Some(url),
                            !.meta = MetaOf(b, url).val])
    /\ UNCHANGED <<now, index, content>>

\* The reader reads through the Metadata it holds.
ReaderRead(p) ==
    /\ proc[p].pc = "held"
    /\ \E io \in {"ok", "err"} :
          Step(p, [proc[p] EXCEPT
                     !.pc = "done",
                     !.result = Some(IF proc[p].path = "cacache"
                                     THEN CacacheRead(content, Unwrap(proc[p].meta), io)
                                     ELSE DummyRead(dummy, Unwrap(proc[p].meta)))])
    /\ UNCHANGED <<now, index, content>>

\* clear() of the cacache store, at any moment
ClearAnytime ==
    /\ index' = [k \in Keys |-> None]
    /\ content' = {}
    /\ UNCHANGED <<now, proc, dummy, list, canteen>>

NextReader ==
    \/ \E url \in Keys, text \in Bodies : CacacheWrite(url, text, EtagOnly, "ok")
    \/ \E url \in Keys, text \in Bodies : DummyCacheWrite(url, text, EtagOnly)
    \/ ClearAnytime
    \/ DummyCacheClear
    \/ \E b \in Backends, url \in Keys : ReaderMeta(1, b, url)
    \/ ReaderRead(1)
    \/ Return(1)
    \/ Tick

SpecReader == Init /\ [][NextReader]_vars

\* The reader holds the Metadata of an entry, and its store was cleared
\* since and holds nothing.
C28_Witness ==
    /\ proc[1].pc = "held"
    /\ IsSome(proc[1].meta)
    /\ CacacheEmpty(index, content, now)
    /\ DummyEmpty(dummy)

\* C29: a read through Metadata whose payload is not stored any more, as
\* after a clear() between the probe and the read, returns an error value
\* in every backend and never panics; a payload it returns is the whole
\* payload of the entry.
C29_ReadNeverPanics ==
    \A p \in Procs :
       (proc[p].pc = "done" /\ proc[p].path \in Backends) =>
          LET res == Unwrap(proc[p].result)
              meta == Unwrap(proc[p].meta)
          IN  /\ "panic" \notin DOMAIN res
              /\ ~res.ok => res.err \in {ErrCache("reading value"), ErrDecodingUtf8}
              /\ res.ok => \E text \in Bodies :
                              /\ res.val = text
                              /\ proc[p].path = "cacache"
                                    => meta.integrity = IntegrityOf(AsBytes(text))

\* The same for the cacache store alone.
CacacheReadNeverPanics ==
    \A p \in Procs :
       (proc[p].pc = "done" /\ proc[p].path = "cacache") =>
          LET res == Unwrap(proc[p].result)
          IN  /\ "panic" \notin DOMAIN res
              /\ ~res.ok => res.err \in {ErrCache("reading value"), ErrDecodingUtf8}

\* The cacache store was cleared under the reader, whose read gave an error.
CacacheReadAfterClear ==
    /\ proc[1].pc = "done"
    /\ proc[1].path = "cacache"
    /\ CacacheEmpty(index, content, now)
    /\ proc[1].result = Some(Err(ErrCache("reading value")))


(***************************************************************************)
(* Draining a list: whoever holds the list goes on calling next(), and     *)
(* every call of fetch returns.                                            *)
(***************************************************************************)
Drain ==
    \/ ListNextStart
    \/ ListNextNone
    \/ ListNextEnd
    \/ TryLoadMeta(1)
    \/ TryLoadRead(1)
    \/ PageGet(1)
    \/ UpdateCache(1)
    \/ TouchRead(1)
    \/ TouchWrite(1)
    \/ Map(1)

SpecDrain == SpecPages /\ WF_vars(Drain)

\* Step st got a page that ends the chain of next links: its number is the
\* last one or beyond, its list is empty, it has no next link, or its fetch
\* failed.
EndingPage(st) ==
    \/ ~st.res.ok
    \/ /\ st.res.ok
       /\ \/ st.res.val[1] = <<>>
          \/ st.res.val[3] = None
          \/ /\ IsSome(st.res.val[2])
             /\ IsSome(st.res.val[4])
             /\ Unwrap(st.res.val[2]) >= Unwrap(st.res.val[4])

\* The last step so far got an ending page.
EndReached == list.steps # <<>> /\ EndingPage(list.steps[Len(list.steps)])

\* A step has yielded nothing, or consume() has returned.
Drained == list.nones > 0 \/ IsSome(list.out)

\* A call of fetch begins only in a step that takes the pending URL, and
\* the one item a step yields is the result of that call.
OneFetchOneBatch ==
    /\ (proc[1].pc = "idle" /\ proc'[1].pc # "idle")
          => /\ IsSome(list.next_page)
             /\ list'.next_page = None
             /\ list'.steps = list.steps
    /\ list'.steps # list.steps
          => /\ proc[1].pc = "done"
             /\ proc'[1].pc = "idle"
             /\ \E st \in {[res |-> Unwrap(proc[1].result), page |-> proc[1].url,
                            gets |-> Len(proc[1].gets)]} :
                   list'.steps = Append(list.steps, st)
    /\ Len(list.steps) <= MaxSteps

\* C30: draining a paginated retrieval terminates, with a step that yields
\* nothing, whenever every fetch returns and the chain of next links
\* reaches a page with this_page >= last_page, an empty page, a page
\* without next link or a failure; each step makes at most one fetch and
\* yields at most one batch.
C30_DrainTerminates == [][OneFetchOneBatch]_vars /\ (EndReached ~> Drained)

\* A retrieval that ended at a page without next link.
C30_Witness ==
    /\ list.by = "next"
    /\ Len(list.steps) = 2
    /\ list.steps[2].res = Ok(<<<<2>>, Some(2), None, Some(NumPages)>>)
    /\ list.nones > 0

(***************************************************************************)
(* The calls on a Canteen.  Each call is one action: the closures it runs  *)
(* are part of it, their answers drawn from what the retrieval can give.   *)
(***************************************************************************)
\* A canteen given by its id, or one deserialized from the API's list.
InitCanteen ==
    /\ now = 0
    /\ index = [k \in Keys |-> None]
    /\ content = {}
    /\ proc = [p \in Procs |-> Idle]
    /\ dummy = DummyInit
    /\ list = NoList
    /\ canteen \in {CanteenFrom(id) : id \in CanteenIds}
                   \cup {CanteenFromDeserialized(id, m) : id \in CanteenIds, m \in Metas}

MealsAtMutCall ==
    /\ \E date \in Dates, days \in DaysAnswers, meals \in MealsAnswers :
         canteen' = [meals_at_mut(canteen, date, days, meals) EXCEPT
                       !.last.given = Answers(None, Some(days), Some(meals))]
    /\ UNCHANGED <<now, index, content, proc, dummy, list>>

MetaCall ==
    /\ \E answer \in MetaAnswers :
         canteen' = [canteen_meta(canteen, answer) EXCEPT
                       !.last.given = Answers(Some(answer), None, None)]
    /\ UNCHANGED <<now, index, content, proc, dummy, list>>

NextCanteen ==
    \/ MealsAtMutCall
    \/ MetaCall

SpecCanteen == InitCanteen /\ [][NextCanteen]_vars

\* The map of dates a canteen holds, empty while the days are not fetched.
DatesOf(c) == IF c.meals.fetched THEN Unwrap(c.meals.value) ELSE << >>

\* What a date of the list held before a call: nothing yet when the list
\* itself was only fetched by the call.
HeldBefore(c, d) ==
    IF c.meals.fetched /\ d \in DOMAIN DatesOf(c) THEN DatesOf(c)[d]
    ELSE FetchableNone

\* A call of meals_at_mut(date) that returned Ok: the days were asked for
\* exactly when the list was not fetched before, the meals were asked for
\* at most once and only for the requested date and only when that date
\* had none, meta is as before, every other listed date holds what it held
\* (a freshly listed date nothing), and the requested date is Fetched when
\* it is listed and otherwise the answer is None and no meals were asked.
MealsAtMutEffect ==
    (canteen'.last.op = "meals_at_mut" /\ ~canteen'.last.panic
        /\ Unwrap(canteen'.last.result).ok) =>
    LET date == canteen'.last.date
        asked == canteen'.last.requests
        id == canteen.id
        answer == Unwrap(canteen'.last.result).val
        map == DatesOf(canteen')
        days_asked == {i \in DOMAIN asked : asked[i] = DaysUrl(id)}
        meals_asked == {i \in DOMAIN asked : asked[i].path = "meals"}
    IN  /\ canteen'.meta = canteen.meta
        /\ canteen'.id = canteen.id
        /\ canteen'.meals.fetched
        /\ Cardinality(days_asked) = (IF canteen.meals.fetched THEN 0 ELSE 1)
        /\ Cardinality(days_asked) + Cardinality(meals_asked) = Len(asked)
        /\ \A i \in meals_asked : asked[i] = MealsUrl(id, date)
        /\ Cardinality(meals_asked) =
              (IF date \in DOMAIN map /\ ~HeldBefore(canteen, date).fetched
               THEN 1 ELSE 0)
        /\ canteen.meals.fetched => DOMAIN map = DOMAIN DatesOf(canteen)
        /\ \A d \in DOMAIN map \ {date} : map[d] = HeldBefore(canteen, d)
        /\ IF date \in DOMAIN map
           THEN /\ map[date].fetched
                /\ answer = map[date].value
           ELSE /\ answer = None
                /\ meals_asked = {}

\* C31: meals_at_mut(date) fetches the list of days only if it was not
\* fetched yet and meals only for the requested date; afterwards that date
\* is Fetched, every other listed date is as unfetched as before, meta is
\* untouched, and a date outside the list gives None without a meals request.
C31_MealsAtMutFetchesOnlyRequested == [][MealsAtMutEffect]_vars

\* A fresh canteen asked for a listed date: days and meals were requested,
\* the date is Fetched, the other listed date is not, meta is still None.
C31_Witness ==
    /\ canteen.last.op = "meals_at_mut"
    /\ canteen.last.requests =
          <<DaysUrl(canteen.id), MealsUrl(canteen.id, canteen.last.date)>>
    /\ canteen.last.result = Some(Ok(Some(<<"Schweinebraten">>)))
    /\ ~canteen.meta.fetched
    /\ \E d \in DOMAIN DatesOf(canteen) \ {canteen.last.date} :
          ~DatesOf(canteen)[d].fetched
    /\ DatesOf(canteen)[canteen.last.date] = FetchableFetched(<<"Schweinebraten">>)

\* A date that is not in the list: None, and only the days were requested.
C31_WitnessUnlisted ==
    /\ canteen.last.op = "meals_at_mut"
    /\ canteen.last.result = Some(Ok(None))
    /\ canteen.last.requests = <<DaysUrl(canteen.id)>>
    /\ DOMAIN DatesOf(canteen) # {}
    /\ canteen.last.date \notin DOMAIN DatesOf(canteen)

\* The list was fetched by an earlier call: only the meals were requested.
C31_WitnessListed ==
    /\ canteen.last.op = "meals_at_mut"
    /\ canteen.last.requests = <<MealsUrl(canteen.id, canteen.last.date)>>
    /\ \E d \in DOMAIN DatesOf(canteen) \ {canteen.last.date} :
          DatesOf(canteen)[d].fetched

(***************************************************************************)
(* A 304 for a stale entry whose payload cannot be loaded.                  *)
(***************************************************************************)
\* The errors of loading the cached payload in touch_and_load_cache.
LoadErrors ==
    {ErrCache("reading value"), ErrDecodingUtf8,
     ErrDeserializing("reading headers from cache. Try clearing the cache.")}

\* The Stale arm's conditional GET was answered 304 and the load of the
\* cached payload is over without a touch having been written: it failed.
LoadFailedAfter304(s) ==
    /\ s.path = "stale"
    /\ s.gets # <<>>
    /\ IsResponse(s.gets[1])
    /\ s.gets[1].status = StatusNotModified
    /\ ~(Len(s.gets) = 1 /\ s.pc \in {"touch_read", "touch_write"})
    /\ \A i \in DOMAIN s.writes : ~s.writes[i].touch

\* C32: when a STALE entry is confirmed by a 304 and loading the cached
\* payload fails, the load error is logged and not returned: the call makes
\* exactly one more GET, without If-None-Match, and ends as that GET ends; a
\* 2xx answer whose write succeeds updates the cache and is returned.
C32_LoadFailureFallsBack ==
    \A p \in Procs :
       LET s == proc[p]
       IN  LoadFailedAfter304(s) =>
              /\ s.retry
              /\ s.log # <<>> /\ s.log[1] \in LoadErrors
              /\ Len(s.gets) <= 2
              /\ s.pc = "done" =>
                    /\ Len(s.gets) = 2
                    /\ s.gets[2].etag = None
                    /\ ~Unwrap(s.result).ok => ~(Got2xx(s.gets[2]) /\ LastWriteOk(s))
                    /\ (Got2xx(s.gets[2]) /\ LastWriteOk(s)) => ReturnedAndWritten(s)

\* The payload could not be read; the fallback was answered 200 and returned.
C32_Witness ==
    \E p \in Procs :
       /\ proc[p].pc = "done"
       /\ LoadFailedAfter304(proc[p])
       /\ proc[p].log[1] = ErrCache("reading value")
       /\ proc[p].gets[1].etag # None
       /\ proc[p].gets[2].status = StatusOk
       /\ IsSome(proc[p].result) /\ Unwrap(proc[p].result).ok
       /\ LastWriteOk(proc[p])

\* The stored bytes are not UTF-8.
C32_WitnessUtf8 ==
    \E p \in Procs :
       /\ proc[p].pc = "done"
       /\ LoadFailedAfter304(proc[p])
       /\ proc[p].log[1] = ErrDecodingUtf8
       /\ IsSome(proc[p].result) /\ Unwrap(proc[p].result).ok

\* Stored headers that do not decode never reach the touch: the probe fails
\* on them first.
LoadNeverFailsOnHeaders ==
    \A p \in Procs :
       LoadFailedAfter304(proc[p]) => proc[p].log[1].kind # "Deserializing"

(***************************************************************************)
(* Which requests may be answered 304.                                     *)
(***************************************************************************)
\* The i-th GET of the call of s was answered 304.
Got304(s, i) == IsResponse(s.gets[i]) /\ s.gets[i].status = StatusNotModified

\* The error fetch gives for a 304 it does not accept.
Err304(s) == ErrNonSuccessStatusCode(Unwrap(s.url), StatusNotModified)

\* The writes the call of s made for its i-th GET.
WritesFor(s, i) == {j \in DOMAIN s.writes : s.writes[j].gets = i}

\* C33: a 304 is taken as 'the cached content is still valid' only when it
\* answers the first request of the Stale arm, with or without an etag sent:
\* then no status error is logged or returned for it and the cached payload
\* is loaded (a load that fails leads to the retry).  A 304 that answers
\* the request of a MISS, of a failed probe or the unconditional retry ends
\* the call with the status error for 304, and no write is made for it.
C33_NotModifiedOnlyForStale ==
    \A p \in Procs :
       LET s == proc[p]
       IN  \A i \in DOMAIN s.gets :
              Got304(s, i) =>
                 IF s.path = "stale" /\ i = 1
                 THEN /\ \A k \in DOMAIN s.log : s.log[k] # Err304(s)
                      /\ (Len(s.gets) = 1 /\ s.pc = "done") =>
                            Unwrap(s.result) # Err(Err304(s))
                      /\ Len(s.gets) = 1 =>
                            \/ s.pc \in {"touch_read", "touch_write", "map", "done"}
                            \/ s.pc = "get" /\ s.retry /\ s.log[1] \in LoadErrors
                 ELSE /\ i = Len(s.gets)
                      /\ s.pc = "done"
                      /\ s.result = Some(Err(Err304(s)))
                      /\ WritesFor(s, i) = {}

\* A stale entry's 304 was accepted, its payload could not be loaded, and
\* the 304 that answered the retry ended the call with the status error.
C33_Witness ==
    \E p \in Procs :
       /\ proc[p].pc = "done"
       /\ proc[p].path = "stale"
       /\ Len(proc[p].gets) = 2
       /\ Got304(proc[p], 1)
       /\ Got304(proc[p], 2)
       /\ proc[p].result = Some(Err(Err304(proc[p])))
       /\ proc[p].writes = <<>>

\* A stale entry stored without etag: no If-None-Match was sent, and the 304
\* was accepted all the same.
C33_WitnessNoEtag ==
    \E p \in Procs :
       /\ proc[p].pc = "done"
       /\ proc[p].path = "stale"
       /\ Len(proc[p].gets) = 1
       /\ Got304(proc[p], 1)
       /\ proc[p].gets[1].etag = None
       /\ IsSome(proc[p].result) /\ Unwrap(proc[p].result).ok
       /\ \E j \in DOMAIN proc[p].writes : proc[p].writes[j].touch

(***************************************************************************)
(* The key of a call's writes.                                             *)
(***************************************************************************)
\* C34: every cache write of a call uses the key the call probed, the
\* normalized request URL, for the content of a 2xx response and for the
\* touch after a 304, whatever final URL the response reports; so after a
\* call that wrote and ended well the requested key has an entry.
C34_WritesUseProbedKey ==
    \A p \in Procs :
       LET s == proc[p]
       IN  /\ \A j \in DOMAIN s.writes : s.writes[j].key = Unwrap(s.url)
           /\ (s.pc = "done" /\ Unwrap(s.result).ok /\ LastWriteOk(s)) =>
                 IsSome(index[Unwrap(s.url)])

\* The touch after a 304 does use the probed key, and so does the write of
\* a response that reports the requested URL as its own.
TouchAndDirectWritesUseProbedKey ==
    \A p \in Procs :
       LET s == proc[p]
       IN  /\ \A j \in DOMAIN s.writes :
                 s.writes[j].touch => s.writes[j].key = Unwrap(s.url)
           /\ (s.pc = "map" /\ s.writes # <<>> /\ IsSome(s.resp)
                  /\ s.writes[Len(s.writes)].gets = Len(s.gets)
                  /\ Unwrap(s.resp).url = s.url) =>
                 s.writes[Len(s.writes)].key = Unwrap(s.url)

(***************************************************************************)
(* The touch after a 304 against a write of new content.                   *)
(***************************************************************************)
\* Process p has written its touch in this step, and the write succeeded.
Touched(p) ==
    /\ WroteOk(p)
    /\ proc'[p].writes[Len(proc'[p].writes)].touch

\* The payload a touch stores is the payload the key held when the touch
\* was written.
TouchKeepsStoredPayload ==
    \A p \in Procs :
       (Touched(p) /\ IsSome(index[Unwrap(proc[p].url)])) =>
          /\ IsSome(index'[Unwrap(proc[p].url)])
          /\ Unwrap(index'[Unwrap(proc[p].url)]).integrity =
                Unwrap(index[Unwrap(proc[p].url)]).integrity

\* C35: a touch after a 304 never regresses the stored content: the payload
\* it writes back is the payload stored under the key at that moment, also
\* when another call has stored newer content since the touching call
\* probed the cache.
C35_TouchNeverRegresses == [][TouchKeepsStoredPayload]_vars

\* With no other call in between, the touch writes back what is stored.
TouchAloneKeepsPayload ==
    \A p \in Procs :
       (Touched(p) /\ IsSome(index[Unwrap(proc[p].url)])
           /\ \A q \in Procs \ {p} : proc[q].writes = <<>>) =>
          Unwrap(index'[Unwrap(proc[p].url)]).integrity =
             Unwrap(index[Unwrap(proc[p].url)]).integrity

SoloTouchNeverRegresses == [][TouchAloneKeepsPayload]_vars

(***************************************************************************)
(* A map that fails on a body that was fetched and written.                *)
(***************************************************************************)
\* The call of s has a 2xx response whose body it wrote and handed to map.
WroteThenMapped(s) ==
    /\ s.map \in DecodingMaps
    /\ s.gets # <<>>
    /\ Got2xx(s.gets[Len(s.gets)])
    /\ IsSome(s.resp) /\ IsSome(s.tah)
    /\ LastWriteOk(s)

\* The map of the call of s has failed.
MapFailed(s) == s.pc = "done" /\ WroteThenMapped(s) /\ ~Unwrap(s.result).ok

\* A fetch of url with ttl and the map of s, started now, is a HIT on the
\* body s fetched and ends in the error s ended in, with no request made.
NextFetchHitsAndFails(s, url, ttl) ==
    /\ Probe(url, ttl) = Ok(CacheHit(Fetched(Unwrap(s.resp))))
    /\ ApplyMap(s.map, Fetched(Unwrap(s.resp))) = Unwrap(s.result)

\* C36: the body of a 2xx response is in the cache before the map runs, a
\* map that fails leaves it there, and a following fetch of the same URL
\* within the TTL is a HIT that fails with the same deserialization error.
C36_FailedMapLeavesHit ==
    \A p \in Procs :
       LET s == proc[p]
       IN  /\ (s.pc = "map" /\ WroteThenMapped(s)) =>
                 Holds(UpdateKey(s), Unwrap(s.resp))
           /\ MapFailed(s) =>
                 /\ Holds(UpdateKey(s), Unwrap(s.resp))
                 /\ Unwrap(s.result).err.kind = "Deserializing"
                 /\ \A ttl \in TTLs :
                       DurationLess(DurationZero, ttl) =>
                          NextFetchHitsAndFails(s, Unwrap(s.url), ttl)

\* The write does come before the map and outlasts its failure, under the
\* URL the response reports; a fetch of that URL with an unbounded TTL is a
\* HIT that fails as the first did.
FailedMapLeavesEntry ==
    \A p \in Procs :
       LET s == proc[p]
       IN  /\ (s.pc = "map" /\ WroteThenMapped(s)) =>
                 Holds(UpdateKey(s), Unwrap(s.resp))
           /\ MapFailed(s) =>
                 /\ Holds(UpdateKey(s), Unwrap(s.resp))
                 /\ Unwrap(s.result).err.kind = "Deserializing"
                 /\ NextFetchHitsAndFails(s, UpdateKey(s), DurationMax)

\* The same for every positive TTL, when no redirect took place and the
\* write was made at a whole second.
DirectFailedMapLeavesHit ==
    \A p \in Procs :
       LET s == proc[p]
       IN  (MapFailed(s) /\ UpdateKey(s) = Unwrap(s.url)
               /\ now % MillisPerSec = 0) =>
              \A ttl \in TTLs :
                 DurationLess(DurationZero, ttl) =>
                    NextFetchHitsAndFails(s, Unwrap(s.url), ttl)

\* A map failed on a body that was fetched without redirect and written.
FailedMapReached ==
    \E p \in Procs : MapFailed(proc[p]) /\ UpdateKey(proc[p]) = Unwrap(proc[p].url)

(***************************************************************************)
(* A paginated retrieval is lazy and does not start over.                  *)
(***************************************************************************)
\* The list is constructed in this step.
Constructed == list.lists = 0 /\ list'.lists > 0

\* A step that will yield an item begins in this step: fetch is called.
StepBegins == list.lists > 0 /\ proc[1].pc = "idle" /\ proc'[1].pc # "idle"

\* A step yields its item in this step.
StepYields == Len(list'.steps) = Len(list.steps) + 1

\* Construction only stores the URL and the TTL.
ConstructionFetchesNothing ==
    Constructed =>
       /\ IsSome(list'.next_page)
       /\ list'.steps = <<>>
       /\ UNCHANGED <<proc, index, content>>

\* A step takes the pending URL, which leaves none pending, and calls fetch
\* with it; while that call runs no URL is pending and no other call begins,
\* and the step yields what this one call returned.
StepFetchesPendingOnce ==
    /\ StepBegins =>
          /\ IsSome(list.next_page)
          /\ list'.next_page = None
          /\ proc'[1] = Started(Call(Unwrap(list.next_page), list.ttl, "pages"))
          /\ list'.steps = list.steps
    /\ (proc[1].pc # "idle" /\ ~StepYields) =>
          /\ list' = list
          /\ proc'[1].pc # "idle"
          /\ proc'[1].url = proc[1].url
    /\ StepYields =>
          /\ proc[1].pc = "done" /\ proc'[1].pc = "idle"
          /\ list.next_page = None
          /\ list'.steps[Len(list'.steps)].res = Unwrap(proc[1].result)
          /\ list'.steps[Len(list'.steps)].page = proc[1].url

\* After a step that yielded nothing, no step fetches or yields an item and
\* no URL becomes pending.
NothingAfterNone ==
    list.nones > 0 =>
       /\ ~IsSome(list.next_page) /\ ~IsSome(list'.next_page)
       /\ proc[1].pc = "idle" /\ proc'[1].pc = "idle"
       /\ list'.steps = list.steps
       /\ UNCHANGED <<index, content>>

\* C37: constructing a paginated list fetches nothing; every step that
\* yields an item takes the pending URL, leaving none, and makes exactly one
\* call of fetch with it; once a step has yielded nothing, every later step
\* yields nothing and fetches nothing.
C37_LazyNoRestart ==
    [][ConstructionFetchesNothing /\ StepFetchesPendingOnce /\ NothingAfterNone]_vars

\* Two steps that yielded nothing after steps that yielded pages.
C37_Witness ==
    /\ list.nones = MaxNones
    /\ Len(list.steps) >= 2
    /\ list.steps[1].res.ok
    /\ list.next_page = None
    /\ proc[1].pc = "idle"

\* The list ended on an error and then yielded nothing.
C37_WitnessError ==
    /\ list.nones > 0
    /\ list.steps # <<>>
    /\ ~list.steps[Len(list.steps)].res.ok

(***************************************************************************)
(* The Fetchables of a canteen over the calls made on it: meta through     *)
(* fetch, the map of dates and the meals of each date through fetch_mut.   *)
(***************************************************************************)
\* The closure that asks for url was invoked by the call of this step.
Invoked(url) ==
    \E i \in DOMAIN canteen'.last.requests : canteen'.last.requests[i] = url

\* The dates a list of days names.
DatesIn(days) == {days[i] : i \in DOMAIN days}

\* fetch on meta.
MetaFetchable ==
    canteen'.last.op = "meta" =>
       LET answer == Unwrap(canteen'.last.given.canteen)
       IN  /\ Invoked(CanteenUrl(canteen.id)) => ~canteen.meta.fetched
           /\ (Invoked(CanteenUrl(canteen.id)) /\ answer.ok) =>
                 canteen'.meta = FetchableFetched(answer.val)

\* fetch_mut on the map of dates and on the meals of the requested date.
MealsFetchables ==
    canteen'.last.op = "meals_at_mut" =>
       LET days == Unwrap(canteen'.last.given.days)
           meals == Unwrap(canteen'.last.given.meals)
           date == canteen'.last.date
           id == canteen.id
       IN  /\ Invoked(DaysUrl(id)) => ~canteen.meals.fetched
           /\ (Invoked(DaysUrl(id)) /\ days.ok) =>
                 /\ canteen'.meals.fetched
                 /\ DOMAIN DatesOf(canteen') = DatesIn(days.val)
           /\ Invoked(MealsUrl(id, date)) =>
                 /\ date \in DOMAIN DatesOf(canteen')
                 /\ ~HeldBefore(canteen, date).fetched
           /\ (Invoked(MealsUrl(id, date)) /\ meals.ok) =>
                 DatesOf(canteen')[date] = FetchableFetched(meals.val)

\* What is Fetched stays Fetched with the value it has: meta, the map of
\* dates with the dates it lists, and the meals of every date.
FetchedStays ==
    /\ canteen.meta.fetched => canteen'.meta = canteen.meta
    /\ canteen.meals.fetched =>
          /\ canteen'.meals.fetched
          /\ DOMAIN DatesOf(canteen') = DOMAIN DatesOf(canteen)
          /\ \A d \in DOMAIN DatesOf(canteen) :
                DatesOf(canteen)[d].fetched =>
                   DatesOf(canteen')[d] = DatesOf(canteen)[d]

\* C38: over the calls made on a Fetchable, the closure is invoked only
\* while the state is None, a closure that succeeds moves the state to
\* Fetched with its value, what is Fetched never returns to None and is
\* never replaced, and no call panics in assume_fetched.
C38_FetchableOnlyForward ==
    [][~canteen'.last.panic /\ MetaFetchable /\ MealsFetchables /\ FetchedStays]_vars

\* meta was fetched; a later call of meta() found it Fetched, returned it and
\* did not invoke its closure, which would have given another value.
C38_Witness ==
    /\ canteen.last.op = "meta"
    /\ canteen.last.requests = <<>>
    /\ ~canteen.last.panic
    /\ canteen.meta = FetchableFetched("Fetchable")
    /\ canteen.last.result = Some(Ok("Fetchable"))
    /\ canteen.last.given.canteen = Some(Ok("Awesome Canteen"))
    /\ canteen.meals.fetched

\* The meals of a date were fetched, and a later call for that date invoked
\* no closure.
C38_WitnessMeals ==
    /\ canteen.last.op = "meals_at_mut"
    /\ canteen.last.requests = <<>>
    /\ canteen.last.result = Some(Ok(Some(<<"Schweinebraten">>)))
    /\ canteen.last.given.meals = Some(Ok(<<>>))

\* A call on a Fetchable that is None invokes the closure; when the closure
\* fails the call returns that error and the Fetchable is None afterwards.
FailedClosureLeavesNone ==
    LET call == canteen'.last
        id == canteen.id
        date == call.date
    IN  /\ (call.op = "meta" /\ ~canteen.meta.fetched) =>
              /\ Invoked(CanteenUrl(id))
              /\ ~Unwrap(call.given.canteen).ok =>
                    /\ call.result = call.given.canteen
                    /\ canteen'.meta = FetchableNone
        /\ (call.op = "meals_at_mut" /\ ~canteen.meals.fetched) =>
              /\ Invoked(DaysUrl(id))
              /\ ~Unwrap(call.given.days).ok =>
                    /\ call.result = call.given.days
                    /\ canteen'.meals = FetchableNone
        /\ (call.op = "meals_at_mut" /\ date \in DOMAIN DatesOf(canteen')
               /\ ~HeldBefore(canteen, date).fetched
               /\ (canteen.meals.fetched \/ Unwrap(call.given.days).ok)) =>
              /\ Invoked(MealsUrl(id, date))
              /\ ~Unwrap(call.given.meals).ok =>
                    /\ call.result = call.given.meals
                    /\ DatesOf(canteen')[date] = FetchableNone

\* C39: a closure that fails makes fetch and fetch_mut return its error and
\* leaves the Fetchable None, so that the closure is invoked by every call
\* made while it is None, a call after a failed one included.
C39_FailedClosureLeavesNone == [][FailedClosureLeavesNone]_vars

\* The days were fetched by an earlier call; the closure for the meals of a
\* date failed, its error was returned and the date holds no meals.
C39_Witness ==
    /\ canteen.last.op = "meals_at_mut"
    /\ canteen.last.requests = <<MealsUrl(canteen.id, canteen.last.date)>>
    /\ canteen.last.result = Some(Err(ErrReqwest))
    /\ canteen.last.given.meals = Some(Err(ErrReqwest))
    /\ DatesOf(canteen)[canteen.last.date] = FetchableNone

\* The closure of meta failed.
C39_WitnessMeta ==
    /\ canteen.last.op = "meta"
    /\ canteen.last.requests = <<CanteenUrl(canteen.id)>>
    /\ canteen.last.result =
          Some(Err(ErrDeserializing("fetching json in pagination iterator")))
    /\ canteen.meta = FetchableNone

=============================================================================
